---- MODULE Spec2Model ----
(***************************************************************************)
(* Model of the XPath -> CSS translator of parsel_h5 (src/parsel_h5/xpath.py). *)
(*                                                                         *)
(* A Python str is modelled as a sequence of one-character strings, so     *)
(* that the regular expressions of the module can be evaluated character   *)
(* by character.  Python's None is the value None below, which is not a    *)
(* sequence of one-character strings and so differs from every str.        *)
(***************************************************************************)
EXTENDS Integers, Sequences, FiniteSets, TLC

None == <<"None">>

(***************************************************************************)
(* Character classes used by the patterns.                                 *)
(***************************************************************************)
LowerLetters ==
  {"a","b","c","d","e","f","g","h","i","j","k","l","m",
   "n","o","p","q","r","s","t","u","v","w","x","y","z"}

UpperLetters ==
  {"A","B","C","D","E","F","G","H","I","J","K","L","M",
   "N","O","P","Q","R","S","T","U","V","W","X","Y","Z"}

Digits == {"0","1","2","3","4","5","6","7","8","9"}

\* \s and the characters removed by str.strip()
Whitespace == {" ", "\t", "\n"}

Quotes == {"'", "\""}

\* [a-zA-Z_] and [a-zA-Z0-9_-] of _TAG and _ATTR_NAME
NameStart == LowerLetters \cup UpperLetters \cup {"_"}

NameChar == NameStart \cup Digits \cup {"-"}

\* the class [-\w\s/:.#,;] of _QUOTED_VALUE
ValueChar ==
  LowerLetters \cup UpperLetters \cup Digits \cup {"_"} \cup Whitespace
    \cup {"-", "/", ":", ".", "#", ",", ";"}

\* re.IGNORECASE: case folding of one character
FoldTable ==
  [A |-> "a", B |-> "b", C |-> "c", D |-> "d", E |-> "e", F |-> "f",
   G |-> "g", H |-> "h", I |-> "i", J |-> "j", K |-> "k", L |-> "l",
   M |-> "m", N |-> "n", O |-> "o", P |-> "p", Q |-> "q", R |-> "r",
   S |-> "s", T |-> "t", U |-> "u", V |-> "v", W |-> "w", X |-> "x",
   Y |-> "y", Z |-> "z"]

Fold(c) == IF c \in UpperLetters THEN FoldTable[c] ELSE c

(***************************************************************************)
(* String primitives.                                                      *)
(***************************************************************************)
Suffix(s, i) == SubSeq(s, i, Len(s))

\* the literal lit occurs in s at index i
At(s, i, lit) ==
  /\ i >= 1
  /\ i + Len(lit) - 1 <= Len(s)
  /\ \A k \in 1..Len(lit) : s[i + k - 1] = lit[k]

\* the same, ignoring case (the literal is lower case)
AtFold(s, i, lit) ==
  /\ i >= 1
  /\ i + Len(lit) - 1 <= Len(s)
  /\ \A k \in 1..Len(lit) : Fold(s[i + k - 1]) = lit[k]

\* index after the longest run of characters of class cls starting at i
RunIn(s, i, cls) ==
  CHOOSE j \in i..(Len(s) + 1) :
    /\ \A k \in i..(j - 1) : s[k] \in cls
    /\ (j = Len(s) + 1 \/ s[j] \notin cls)

\* index after the longest run of characters outside cls starting at i
RunNotIn(s, i, cls) ==
  CHOOSE j \in i..(Len(s) + 1) :
    /\ \A k \in i..(j - 1) : s[k] \notin cls
    /\ (j = Len(s) + 1 \/ s[j] \in cls)

\* str.strip()
LastNonSpace(s, first) ==
  CHOOSE j \in first..Len(s) :
    /\ s[j] \notin Whitespace
    /\ \A k \in (j + 1)..Len(s) : s[k] \in Whitespace

\* s from its first character that is not whitespace to its last one
Trimmed(s, first) ==
  IF first > Len(s) THEN <<>> ELSE SubSeq(s, first, LastNonSpace(s, first))

\* mutation: only the leading whitespace is removed
strip_left(s) == Suffix(s, RunIn(s, 1, Whitespace))

strip(s) == Trimmed(s, RunIn(s, 1, Whitespace))

\* str.replace(old, new) for one-character old and new
replace(s, old, new) == [k \in 1..Len(s) |-> IF s[k] = old THEN new ELSE s[k]]

\* str.isdigit()
isdigit(s) == Len(s) > 0 /\ \A k \in 1..Len(s) : s[k] \in Digits

\* "." does not match a line break
NoNewline(s) == \A k \in 1..Len(s) : s[k] # "\n"

\* truth value of a str-or-None
Truthy(v) == v # None /\ v # <<>>

(***************************************************************************)
(* String constants of the module.                                         *)
(***************************************************************************)
TEXT_SUFFIX == <<"/","t","e","x","t","(",")">>

TEXT_FN == <<"t","e","x","t","(",")">>

ID_OPEN == <<"i","d","(">>

CONTAINS_OPEN == <<"c","o","n","t","a","i","n","s","(">>

STARTS_WITH_OPEN == <<"s","t","a","r","t","s","-","w","i","t","h","(">>

NTH_OPEN == <<":","n","t","h","-","o","f","-","t","y","p","e","(">>

DESCENDANT == <<" ">>

CHILD == <<" ",">"," ">>

PAT_position == <<"p","o","s","i","t","i","o","n","(",")">>

PAT_last == <<"l","a","s","t","(",")">>

PAT_not == <<"n","o","t","(">>

PAT_following == <<"f","o","l","l","o","w","i","n","g","-","s","i","b","l","i","n","g",":",":">>

PAT_preceding == <<"p","r","e","c","e","d","i","n","g","-","s","i","b","l","i","n","g",":",":">>

PAT_ancestor == <<"a","n","c","e","s","t","o","r",":",":">>

PAT_parent == <<"p","a","r","e","n","t",":",":">>

PAT_and == <<"a","n","d">>

PAT_or == <<"o","r">>

DESC_position == <<"p","o","s","i","t","i","o","n","(",")"," ","f","u","n","c","t","i","o","n">>

DESC_last == <<"l","a","s","t","(",")"," ","f","u","n","c","t","i","o","n">>

DESC_not == <<"n","o","t","(",")"," ","f","u","n","c","t","i","o","n">>

DESC_following == <<"f","o","l","l","o","w","i","n","g","-","s","i","b","l","i","n","g"," ","a","x","i","s">>

DESC_preceding == <<"p","r","e","c","e","d","i","n","g","-","s","i","b","l","i","n","g"," ","a","x","i","s">>

DESC_ancestor == <<"a","n","c","e","s","t","o","r"," ","a","x","i","s">>

DESC_parent == <<"p","a","r","e","n","t"," ","a","x","i","s">>

DESC_and == <<"a","n","d"," ","o","p","e","r","a","t","o","r"," ","i","n"," ","p","r","e","d","i","c","a","t","e","s">>

DESC_or == <<"o","r"," ","o","p","e","r","a","t","o","r"," ","i","n"," ","p","r","e","d","i","c","a","t","e","s">>

IS_NOT_SUPPORTED == <<" ","i","s"," ","n","o","t"," ","s","u","p","p","o","r","t","e","d">>

SUGGEST_DETECTOR == <<"U","s","e"," ","C","S","S"," ","s","e","l","e","c","t","o","r","s"," ","o","r"," ","p","r","o","c","e","s","s"," ","r","e","s","u","l","t","s"," ","i","n"," ","P","y","t","h","o","n">>

REASON_TEXT_EQ == <<"T","e","x","t"," ","m","a","t","c","h","i","n","g"," ","p","r","e","d","i","c","a","t","e","s"," ","a","r","e"," ","n","o","t"," ","s","u","p","p","o","r","t","e","d"," ","i","n"," ","C","S","S">>

REASON_CONTAINS_TEXT == <<"T","e","x","t"," ","c","o","n","t","a","i","n","s"," ","p","r","e","d","i","c","a","t","e","s"," ","a","r","e"," ","n","o","t"," ","s","u","p","p","o","r","t","e","d"," ","i","n"," ","C","S","S">>

SUGGEST_TEXT == <<"S","e","l","e","c","t"," ","e","l","e","m","e","n","t","s"," ","f","i","r","s","t",","," ","t","h","e","n"," ","f","i","l","t","e","r"," ","b","y"," ","t","e","x","t"," ","c","o","n","t","e","n","t"," ","i","n"," ","P","y","t","h","o","n">>

UNSUPPORTED_PREDICATE == <<"U","n","s","u","p","p","o","r","t","e","d"," ","p","r","e","d","i","c","a","t","e",":"," ","[">>

SUGGEST_PREDICATE == <<"U","s","e"," ","C","S","S"," ","s","e","l","e","c","t","o","r","s"," ","d","i","r","e","c","t","l","y"," ","f","o","r"," ","b","e","t","t","e","r"," ","h","t","m","l","5","e","v","e","r"," ","c","o","m","p","a","t","i","b","i","l","i","t","y">>

CANNOT_PARSE == <<"C","a","n","n","o","t"," ","p","a","r","s","e",":"," ">>

SUGGEST_PARSE == <<"U","s","e"," ","C","S","S"," ","s","e","l","e","c","t","o","r","s"," ","d","i","r","e","c","t","l","y">>

MSG_HEAD == <<"C","a","n","n","o","t"," ","c","o","n","v","e","r","t"," ","X","P","a","t","h"," ","'">>

MSG_MID == <<"'",":"," ">>

MSG_SUGGESTION == <<"."," ","S","u","g","g","e","s","t","i","o","n",":"," ">>

(***************************************************************************)
(* XPathConversionError: the fields set by __init__ and the message passed *)
(* to ValueError.                                                          *)
(***************************************************************************)
XPathConversionError(xpath, reason, suggestion) ==
  [xpath |-> xpath, reason |-> reason, suggestion |-> suggestion]

\* str(error)
Message(e) ==
  MSG_HEAD \o e.xpath \o MSG_MID \o e.reason
    \o (IF Truthy(e.suggestion) THEN MSG_SUGGESTION \o e.suggestion ELSE <<>>)

NoError == [xpath |-> None, reason |-> None, suggestion |-> None]

(***************************************************************************)
(* The patterns.  Every matcher returns a record whose field ok tells      *)
(* whether the pattern matched, with the groups of the match.  The         *)
(* character classes of the patterns make every greedy choice the only     *)
(* one that can succeed, so no backtracking is needed.  An index 0 stands  *)
(* for "no match so far" and is passed on by every matcher.                *)
(***************************************************************************)
NoMatch == [ok |-> FALSE]

\* [a-zA-Z_][a-zA-Z0-9_-]* at index i: the index after it, 0 when absent
NameEnd(s, i) ==
  IF i >= 1 /\ i <= Len(s) /\ s[i] \in NameStart
  THEN RunIn(s, i + 1, NameChar)
  ELSE 0

\* _ATTR_NAME at index i: the index after it, 0 when absent
ATTR_NAME(s, i) ==
  IF i >= 1 /\ i <= Len(s) /\ s[i] = "@" THEN NameEnd(s, i + 1) ELSE 0

\* the value run of _QUOTED_VALUE ends at j: the closing quote
QuotedUpTo(s, i, j) ==
  IF j > i + 1 /\ j <= Len(s) /\ s[j] \in Quotes
  THEN [ok |-> TRUE, end |-> j + 1, value |-> SubSeq(s, i + 1, j - 1)]
  ELSE NoMatch

\* _QUOTED_VALUE at index i
QUOTED_VALUE(s, i) ==
  IF i >= 1 /\ i <= Len(s) /\ s[i] \in Quotes
  THEN QuotedUpTo(s, i, RunIn(s, i + 1, ValueChar))
  ELSE NoMatch

\* <c>\s* at index j: the index after it, 0 when absent
SeparatorAt(s, j, c) ==
  IF j <= Len(s) /\ s[j] = c THEN RunIn(s, j + 1, Whitespace) ELSE 0

\* \s*<c>\s* at index i: the index after it, 0 when absent
Separator(s, i, c) ==
  IF i = 0 THEN 0 ELSE SeparatorAt(s, RunIn(s, i, Whitespace), c)

\* the groups of _PRED_ATTR_EQ, the name ending at a and the value being q
AttrEqGroups(p, a, q) ==
  IF q.ok /\ q.end = Len(p) + 1
  THEN [ok |-> TRUE, attr |-> SubSeq(p, 2, a - 1), value |-> q.value]
  ELSE NoMatch

AttrEqAfterName(p, a) == AttrEqGroups(p, a, QUOTED_VALUE(p, Separator(p, a, "=")))

\* _PRED_ATTR_EQ: ^@name\s*=\s*QUOTED$
PRED_ATTR_EQ(p) == AttrEqAfterName(p, ATTR_NAME(p, 1))

HasAttrGroups(p, a) ==
  IF a = Len(p) + 1 THEN [ok |-> TRUE, attr |-> SubSeq(p, 2, a - 1)] ELSE NoMatch

\* _PRED_HAS_ATTR: ^@name$
PRED_HAS_ATTR(p) == HasAttrGroups(p, ATTR_NAME(p, 1))

\* the groups of a function of an attribute: the name is p[s0+1..a-1]
FuncGroups(p, s0, a, q) ==
  IF q.ok /\ q.end = Len(p) /\ p[q.end] = ")"
  THEN [ok |-> TRUE, attr |-> SubSeq(p, s0 + 1, a - 1), value |-> q.value]
  ELSE NoMatch

FuncAfterName(p, s0, a) == FuncGroups(p, s0, a, QUOTED_VALUE(p, Separator(p, a, ",")))

FuncAfterOpen(p, s0) == FuncAfterName(p, s0, ATTR_NAME(p, s0))

\* mutation: the function forms are not recognised
FuncOfAttr_unrecognised(p, open) == NoMatch

\* ^<open>\s*@name\s*,\s*QUOTED\)$
FuncOfAttr(p, open) ==
  IF At(p, 1, open)
  THEN FuncAfterOpen(p, RunIn(p, Len(open) + 1, Whitespace))
  ELSE NoMatch

\* _PRED_CONTAINS_ATTR
PRED_CONTAINS_ATTR(p) == FuncOfAttr(p, CONTAINS_OPEN)

\* _PRED_STARTS_WITH_ATTR
PRED_STARTS_WITH_ATTR(p) == FuncOfAttr(p, STARTS_WITH_OPEN)

\* (?:text\(\)|\.) at index i: the index after it, 0 when absent
TextOrDot(s, i) ==
  IF At(s, i, TEXT_FN) THEN i + Len(TEXT_FN)
  ELSE IF At(s, i, <<".">>) THEN i + 1
  ELSE 0

\* the quoted value q ends the string
EndsWithValue(p, q) == q.ok /\ q.end = Len(p) + 1

\* the quoted value q is followed by ")" and the end of the string
EndsWithValueParen(p, q) == q.ok /\ q.end = Len(p) /\ p[q.end] = ")"

\* _PRED_TEXT_EQ: ^(?:text\(\)|\.)\s*=\s*QUOTED$
PRED_TEXT_EQ(p) ==
  EndsWithValue(p, QUOTED_VALUE(p, Separator(p, TextOrDot(p, 1), "=")))

\* _PRED_CONTAINS_TEXT: ^contains\(\s*(?:text\(\)|\.)\s*,\s*QUOTED\)$
PRED_CONTAINS_TEXT(p) ==
  /\ At(p, 1, CONTAINS_OPEN)
  /\ EndsWithValueParen(p,
       QUOTED_VALUE(p, Separator(p,
         TextOrDot(p, RunIn(p, Len(CONTAINS_OPEN) + 1, Whitespace)), ",")))

\* mutation: ^(.+)/text\(\)$, the suffix alone does not match
TEXT_PATTERN_nonempty(s) ==
  IF /\ Len(s) > Len(TEXT_SUFFIX)
     /\ At(s, Len(s) - Len(TEXT_SUFFIX) + 1, TEXT_SUFFIX)
     /\ NoNewline(SubSeq(s, 1, Len(s) - Len(TEXT_SUFFIX)))
  THEN [ok |-> TRUE, head |-> SubSeq(s, 1, Len(s) - Len(TEXT_SUFFIX))]
  ELSE NoMatch

\* _TEXT_PATTERN: ^(.*)/text\(\)$
TEXT_PATTERN(s) ==
  IF /\ Len(s) >= Len(TEXT_SUFFIX)
     /\ At(s, Len(s) - Len(TEXT_SUFFIX) + 1, TEXT_SUFFIX)
     /\ NoNewline(SubSeq(s, 1, Len(s) - Len(TEXT_SUFFIX)))
  THEN [ok |-> TRUE, head |-> SubSeq(s, 1, Len(s) - Len(TEXT_SUFFIX))]
  ELSE NoMatch

\* the start of the run of name characters that ends s (Len(s) + 1 when
\* s does not end with a name character)
NameRunStart(s) ==
  CHOOSE k \in 1..(Len(s) + 1) :
    /\ \A m \in k..Len(s) : s[m] \in NameChar
    /\ (k = 1 \/ s[k - 1] \notin NameChar)

\* "@" is not a name character, so the name of _ATTR_EXTRACT_PATTERN is
\* the run of name characters at the end of s, starting at j
AttrExtractAt(s, j) ==
  IF /\ j >= 3
     /\ NameEnd(s, j) = Len(s) + 1
     /\ s[j - 1] = "@"
     /\ s[j - 2] = "/"
     /\ NoNewline(SubSeq(s, 1, j - 3))
  THEN [ok |-> TRUE, head |-> SubSeq(s, 1, j - 3), name |-> Suffix(s, j)]
  ELSE NoMatch

\* _ATTR_EXTRACT_PATTERN: ^(.*)/@([a-zA-Z_][a-zA-Z0-9_-]*)$
ATTR_EXTRACT_PATTERN(s) == AttrExtractAt(s, NameRunStart(s))

\* the value is s[a..b-1] and the closing parenthesis is expected at c
IdFuncClose(s, a, b, c) ==
  IF b > a /\ c <= Len(s) /\ s[c] = ")" /\ NoNewline(Suffix(s, c + 1))
  THEN [ok |-> TRUE, value |-> SubSeq(s, a, b - 1), rest |-> Suffix(s, c + 1)]
  ELSE NoMatch

IdFuncValue(s, a, b) ==
  IdFuncClose(s, a, b, IF b <= Len(s) /\ s[b] \in Quotes THEN b + 1 ELSE b)

IdFuncFrom(s, a) ==
  IdFuncValue(s, a, RunNotIn(s, a, Quotes \cup {")"} \cup Whitespace))

\* _ID_FUNC_PATTERN: ^id\(['"]?([^'")\s]+)['"]?\)(.*)$
ID_FUNC_PATTERN(s) ==
  IF At(s, 1, ID_OPEN)
  THEN IdFuncFrom(s, IF Len(s) >= 4 /\ s[4] \in Quotes THEN 5 ELSE 4)
  ELSE NoMatch

BracketUpTo(s, i, j, closed) ==
  IF j > i + 1 /\ j <= Len(s) /\ closed
  THEN [group |-> SubSeq(s, i + 1, j - 1), end |-> j + 1]
  ELSE [group |-> None, end |-> i]

\* (?:\[(?P<predicate>[^\]]+)\])? at index i
OptPredicate(s, i) ==
  IF i >= 1 /\ i <= Len(s) /\ s[i] = "["
  THEN BracketUpTo(s, i, RunNotIn(s, i + 1, {"]"}), TRUE)
  ELSE [group |-> None, end |-> i]

DigitsUpTo(s, i, j) == BracketUpTo(s, i, j, j <= Len(s) /\ s[j] = "]")

\* (?:\[(?P<nth>\d+)\])? at index i
OptNth(s, i) ==
  IF i >= 1 /\ i <= Len(s) /\ s[i] = "["
  THEN DigitsUpTo(s, i, RunIn(s, i + 1, Digits))
  ELSE [group |-> None, end |-> i]

\* mutation: the match consumes nothing, the rest is the whole string
NodeGroups_stuck(s, t0, t1, pr, nt) ==
  IF NoNewline(Suffix(s, nt.end))
  THEN [ok |-> TRUE,
        nav |-> SubSeq(s, 1, t0 - 1),
        tag |-> SubSeq(s, t0, t1 - 1),
        predicate |-> pr.group,
        nth |-> nt.group,
        rest |-> s]
  ELSE NoMatch

\* the groups of _NODE_PATTERN: tag s[t0..t1-1], predicate pr, index nt
NodeGroups(s, t0, t1, pr, nt) ==
  IF NoNewline(Suffix(s, nt.end))
  THEN [ok |-> TRUE,
        nav |-> SubSeq(s, 1, t0 - 1),
        tag |-> SubSeq(s, t0, t1 - 1),
        predicate |-> pr.group,
        nth |-> nt.group,
        rest |-> Suffix(s, nt.end)]
  ELSE NoMatch

NodeAfterPredicate(s, t0, t1, pr) == NodeGroups(s, t0, t1, pr, OptNth(s, pr.end))

NodeAfterTag(s, t0, t1) ==
  IF t1 = 0 THEN NoMatch ELSE NodeAfterPredicate(s, t0, t1, OptPredicate(s, t1))

\* [a-zA-Z_][a-zA-Z0-9_-]*|\* at index t0, the name ending at n
TagEnd(s, t0, n) ==
  IF n # 0 THEN n ELSE IF At(s, t0, <<"*">>) THEN t0 + 1 ELSE 0

NodeAfterNav(s, t0) == NodeAfterTag(s, t0, TagEnd(s, t0, NameEnd(s, t0)))

\* _NODE_PATTERN: ^(//?)(tag|\*)(?:\[([^\]]+)\])?(?:\[(\d+)\])?(.*)$
NODE_PATTERN(s) ==
  IF At(s, 1, <<"/">>)
  THEN NodeAfterNav(s, IF At(s, 2, <<"/">>) THEN 3 ELSE 2)
  ELSE NoMatch

(***************************************************************************)
(* _check_unsupported                                                      *)
(***************************************************************************)
\* re.search(pattern, s, re.IGNORECASE) for a literal pattern
Search(s, lit) == \E i \in 1..Len(s) : AtFold(s, i, lit)

\* re.search(r"\s+word\s+", s, re.IGNORECASE)
SearchWord(s, word) ==
  \E i \in 1..Len(s) :
    /\ s[i] \in Whitespace
    /\ AtFold(s, i + 1, word)
    /\ i + 1 + Len(word) <= Len(s)
    /\ s[i + 1 + Len(word)] \in Whitespace

\* the list of (pattern, description), in the order of the source
\* mutation: last() is listed before position()
unsupported_swapped ==
  << [word |-> FALSE, pattern |-> PAT_last,      description |-> DESC_last],
     [word |-> FALSE, pattern |-> PAT_position,  description |-> DESC_position],
     [word |-> FALSE, pattern |-> PAT_not,       description |-> DESC_not],
     [word |-> FALSE, pattern |-> PAT_following, description |-> DESC_following],
     [word |-> FALSE, pattern |-> PAT_preceding, description |-> DESC_preceding],
     [word |-> FALSE, pattern |-> PAT_ancestor,  description |-> DESC_ancestor],
     [word |-> FALSE, pattern |-> PAT_parent,    description |-> DESC_parent],
     [word |-> TRUE,  pattern |-> PAT_and,       description |-> DESC_and],
     [word |-> TRUE,  pattern |-> PAT_or,        description |-> DESC_or] >>

unsupported ==
  << [word |-> FALSE, pattern |-> PAT_position,  description |-> DESC_position],
     [word |-> FALSE, pattern |-> PAT_last,      description |-> DESC_last],
     [word |-> FALSE, pattern |-> PAT_not,       description |-> DESC_not],
     [word |-> FALSE, pattern |-> PAT_following, description |-> DESC_following],
     [word |-> FALSE, pattern |-> PAT_preceding, description |-> DESC_preceding],
     [word |-> FALSE, pattern |-> PAT_ancestor,  description |-> DESC_ancestor],
     [word |-> FALSE, pattern |-> PAT_parent,    description |-> DESC_parent],
     [word |-> TRUE,  pattern |-> PAT_and,       description |-> DESC_and],
     [word |-> TRUE,  pattern |-> PAT_or,        description |-> DESC_or] >>

\* the entry matches s
Hit(s, entry) ==
  IF entry.word THEN SearchWord(s, entry.pattern) ELSE Search(s, entry.pattern)

UnsupportedHits(s) == {k \in 1..Len(unsupported) : Hit(s, unsupported[k])}

\* mutation: the last entry of the list among the hits
FirstHit_last(hits) == unsupported[CHOOSE h \in hits : \A g \in hits : h >= g]

\* the first entry of the list among the hits
FirstHit(hits) == unsupported[CHOOSE h \in hits : \A g \in hits : h <= g]

RaiseFirstHit(hits, original_xpath) ==
  IF hits = {} THEN NoError
  ELSE XPathConversionError(original_xpath,
                            FirstHit(hits).description \o IS_NOT_SUPPORTED,
                            SUGGEST_DETECTOR)

\* mutation: the detector finds nothing
check_unsupported_off(xpath, original_xpath) == NoError

\* the error raised by _check_unsupported(xpath, original_xpath), NoError
\* when it returns normally
check_unsupported(xpath, original_xpath) ==
  RaiseFirstHit(UnsupportedHits(xpath), original_xpath)

(***************************************************************************)
(* _convert_predicate                                                      *)
(***************************************************************************)
Returned(css, nth) == [raised |-> FALSE, css |-> css, nth |-> nth, error |-> NoError]

Raised(e) == [raised |-> TRUE, css |-> None, nth |-> None, error |-> e]

\* mutation: the numeric branch is never taken
IsPosition_never(predicate) == FALSE

\* the test of the numeric branch
IsPosition(predicate) == isdigit(predicate)

\* mutation: no special case for id and class
AttrEqCss_generic(attr, value) ==
  <<"[">> \o attr \o <<"=", "\"">> \o value \o <<"\"", "]">>

\* the fragment for @attr="value": #id, .class or [attr="value"]
AttrEqCss(attr, value) ==
  IF attr = <<"i","d">> THEN <<"#">> \o replace(value, " ", "#")
  ELSE IF attr = <<"c","l","a","s","s">> THEN <<".">> \o replace(value, " ", ".")
  ELSE <<"[">> \o attr \o <<"=", "\"">> \o value \o <<"\"", "]">>

\* the fragment for @attr
HasAttrCss(attr) == <<"[">> \o attr \o <<"]">>

\* the fragment for contains(@attr, "value")
ContainsCss(attr, value) == <<"[">> \o attr \o <<"*", "=">> \o value \o <<"]">>

\* the fragment for starts-with(@attr, "value")
StartsWithCss(attr, value) == <<"[">> \o attr \o <<"^", "=">> \o value \o <<"]">>

\* the last two steps: the detector on the predicate, then the generic error
RaiseUnsupported(predicate, xpath, other) ==
  IF other # NoError THEN Raised(other)
  ELSE Raised(XPathConversionError(xpath,
                UNSUPPORTED_PREDICATE \o predicate \o <<"]">>,
                SUGGEST_PREDICATE))

\* the text predicates
TryText(predicate, xpath) ==
  IF PRED_TEXT_EQ(predicate)
  THEN Raised(XPathConversionError(xpath, REASON_TEXT_EQ, SUGGEST_TEXT))
  ELSE IF PRED_CONTAINS_TEXT(predicate)
  THEN Raised(XPathConversionError(xpath, REASON_CONTAINS_TEXT, SUGGEST_TEXT))
  ELSE RaiseUnsupported(predicate, xpath, check_unsupported(predicate, xpath))

\* starts-with(@attr, "value"), m being the match of its pattern
TryStartsWith(predicate, xpath, m) ==
  IF m.ok THEN Returned(StartsWithCss(m.attr, m.value), None)
  ELSE TryText(predicate, xpath)

\* contains(@attr, "value"), m being the match of its pattern
TryContains(predicate, xpath, m) ==
  IF m.ok THEN Returned(ContainsCss(m.attr, m.value), None)
  ELSE TryStartsWith(predicate, xpath, PRED_STARTS_WITH_ATTR(predicate))

\* @attr, m being the match of its pattern
TryHasAttr(predicate, xpath, m) ==
  IF m.ok THEN Returned(HasAttrCss(m.attr), None)
  ELSE TryContains(predicate, xpath, PRED_CONTAINS_ATTR(predicate))

\* @attr="value", m being the match of its pattern
TryAttrEq(predicate, xpath, m) ==
  IF m.ok THEN Returned(AttrEqCss(m.attr, m.value), None)
  ELSE TryHasAttr(predicate, xpath, PRED_HAS_ATTR(predicate))

\* the branches in the order of the source, on the stripped predicate
ConvertStripped(predicate, xpath) ==
  IF IsPosition(predicate) THEN Returned(<<>>, predicate)
  ELSE TryAttrEq(predicate, xpath, PRED_ATTR_EQ(predicate))

convert_predicate(predicate, xpath) == ConvertStripped(strip(predicate), xpath)

(***************************************************************************)
(* _convert_node                                                           *)
(***************************************************************************)
\* mutation: the two combinators exchanged
Combinator_swapped(nav) == IF nav = <<"/", "/">> THEN CHILD ELSE DESCENDANT

\* the combinator of a node that is not the first
Combinator(nav) == IF nav = <<"/", "/">> THEN DESCENDANT ELSE CHILD

\* "*" is rendered as nothing
TagCss(tag) == IF tag # <<"*">> THEN tag ELSE <<>>

\* final_nth = nth or pred_nth
\* mutation: the index of the predicate goes before the explicit one
FinalNth_pred(nth, pred_nth) == IF Truthy(pred_nth) THEN pred_nth ELSE nth

FinalNth(nth, pred_nth) == IF Truthy(nth) THEN nth ELSE pred_nth

\* mutation: the index rendered as :nth-child
NthCss_child(final_nth) ==
  IF Truthy(final_nth)
  THEN <<":","n","t","h","-","c","h","i","l","d","(">> \o final_nth \o <<")">>
  ELSE <<>>

\* the :nth-of-type(n) part of a node
NthCss(final_nth) ==
  IF Truthy(final_nth) THEN NTH_OPEN \o final_nth \o <<")">> ELSE <<>>

\* the parts joined, pred being the converted predicate
NodeCss(nav, tag, nth, is_first, pred) ==
  IF pred.raised THEN pred
  ELSE Returned((IF ~is_first THEN Combinator(nav) ELSE <<>>)
                  \o TagCss(tag) \o pred.css \o NthCss(FinalNth(nth, pred.nth)),
                None)

convert_node(nav, tag, predicate, nth, is_first, xpath) ==
  NodeCss(nav, tag, nth, is_first,
          IF Truthy(predicate)
          THEN convert_predicate(predicate, xpath)
          ELSE Returned(<<>>, None))

(***************************************************************************)
(* _parse_and_convert                                                      *)
(***************************************************************************)
RECURSIVE Join(_)
\* "".join(parts)
Join(parts) == IF parts = <<>> THEN <<>> ELSE Head(parts) \o Join(Tail(parts))

Locals(css_parts, is_first, remaining) ==
  [css_parts |-> css_parts, is_first |-> is_first, remaining |-> remaining]

\* the locals after the id() check, m being the match of _ID_FUNC_PATTERN
StartLocals(xpath, m) ==
  IF m.ok
  THEN Locals(<< <<"#">> \o m.value >>, FALSE, m.rest)
  ELSE Locals(<<>>, TRUE, xpath)

\* the locals when the loop is entered
ParseStart(xpath) == StartLocals(xpath, ID_FUNC_PATTERN(xpath))

\* the end of an iteration, node being the converted node
IterationOnNode(remaining, css_parts, is_first, m, node) ==
  IF node.raised
  THEN [status |-> "raise", locals |-> Locals(css_parts, is_first, remaining),
        error |-> node.error]
  ELSE [status |-> "continue",
        locals |-> Locals(Append(css_parts, node.css), FALSE, m.rest),
        error |-> NoError]

\* an iteration, m being the match of _NODE_PATTERN on remaining
\* mutation: the parse failure names the whole input
IterationOnMatch_whole(remaining, css_parts, is_first, original, m) ==
  IF ~m.ok
  THEN IF strip(remaining) = <<>>
       THEN [status |-> "break", locals |-> Locals(css_parts, is_first, remaining),
             error |-> NoError]
       ELSE [status |-> "raise", locals |-> Locals(css_parts, is_first, remaining),
             error |-> XPathConversionError(original, CANNOT_PARSE \o original,
                                            SUGGEST_PARSE)]
  ELSE IterationOnNode(remaining, css_parts, is_first, m,
         convert_node(m.nav, m.tag, m.predicate, m.nth, is_first, original))

IterationOnMatch(remaining, css_parts, is_first, original, m) ==
  IF ~m.ok
  THEN IF strip(remaining) = <<>>
       THEN [status |-> "break", locals |-> Locals(css_parts, is_first, remaining),
             error |-> NoError]
       ELSE [status |-> "raise", locals |-> Locals(css_parts, is_first, remaining),
             error |-> XPathConversionError(original, CANNOT_PARSE \o remaining,
                                            SUGGEST_PARSE)]
  ELSE IterationOnNode(remaining, css_parts, is_first, m,
         convert_node(m.nav, m.tag, m.predicate, m.nth, is_first, original))

\* one iteration of the while loop, entered with remaining non-empty
LoopIteration(remaining, css_parts, is_first, original) ==
  IterationOnMatch(remaining, css_parts, is_first, original, NODE_PATTERN(remaining))

\* the value returned after the loop
JoinParts(css_parts) == strip(Join(css_parts))

RECURSIVE ParseLoop(_, _)
\* the loop after an iteration it
AfterIteration(before, original, it) ==
  IF it.status = "raise" THEN Raised(it.error)
  ELSE IF it.status = "break" THEN Returned(JoinParts(before.css_parts), None)
  ELSE ParseLoop(it.locals, original)

\* the while loop
ParseLoop(before, original) ==
  IF before.remaining = <<>> THEN Returned(JoinParts(before.css_parts), None)
  ELSE AfterIteration(before, original,
         LoopIteration(before.remaining, before.css_parts, before.is_first, original))

parse_and_convert(xpath) == ParseLoop(ParseStart(xpath), xpath)

(***************************************************************************)
(* xpath_to_css                                                            *)
(***************************************************************************)
\* the locals after the second strip, t and a being the two matches
Stripped(t, x1, a) ==
  [xpath     |-> strip(IF a.ok THEN a.head ELSE x1),
   is_text   |-> t.ok,
   is_attr   |-> a.ok,
   attr_name |-> IF a.ok THEN a.name ELSE None]

\* the attribute suffix is looked for in what the text check left
StripAttr(t, x1) == Stripped(t, x1, ATTR_EXTRACT_PATTERN(x1))

StripText(x0, t) == StripAttr(t, IF t.ok THEN t.head ELSE x0)

StripBoth(x0) == StripText(x0, TEXT_PATTERN(x0))

\* the locals after the two suffix checks and the second strip
StripSuffixes(arg) == StripBoth(strip(arg))

Result(css, is_text, is_attr, attr_name) ==
  [css |-> css, is_text |-> is_text, is_attr |-> is_attr, attr_name |-> attr_name]

NoResult == Result(None, FALSE, FALSE, None)

Outcome(raised, error, result) == [raised |-> raised, error |-> error, result |-> result]

\* the end of the call, c being the outcome of _parse_and_convert
AfterParse(s, c) ==
  IF c.raised THEN Outcome(TRUE, c.error, NoResult)
  ELSE Outcome(FALSE, NoError, Result(c.css, s.is_text, s.is_attr, s.attr_name))

\* the call after the detector, bad being the error it raised
AfterDetect(s, bad) ==
  IF bad # NoError THEN Outcome(TRUE, bad, NoResult)
  ELSE AfterParse(s, parse_and_convert(s.xpath))

\* the call after the suffixes were stripped
AfterStrip(s) ==
  IF s.xpath = <<>>
  THEN Outcome(FALSE, NoError, Result(<<"*">>, s.is_text, s.is_attr, s.attr_name))
  ELSE AfterDetect(s, check_unsupported(s.xpath, s.xpath))

\* the whole call: the tuple returned, or the error raised
xpath_to_css(arg) == AfterStrip(StripSuffixes(arg))

(***************************************************************************)
(* HtmlFiveSelector.xpath of parsel_h5/selector.py: the query is           *)
(* converted, the css is searched for ::text and ::attr() by               *)
(* _parse_css_pseudo, and what is left is given to select().               *)
(***************************************************************************)
PSEUDO_TEXT == <<":",":","t","e","x","t">>

PSEUDO_ATTR_OPEN == <<":",":","a","t","t","r","(">>

\* the result of _parse_css_pseudo
Pseudo(q, t, a, n) == [query |-> q, is_text |-> t, is_attr |-> a, attr_name |-> n]

\* query.split(sep), i being the index of the first sep in s, 0 without one
SplitAt(s, i, rest) == IF i = 0 THEN <<s>> ELSE <<SubSeq(s, 1, i - 1)>> \o rest

FirstIndex(s, c) ==
  IF \E i \in 1..Len(s) : s[i] = c
  THEN CHOOSE i \in 1..Len(s) : s[i] = c /\ \A j \in 1..(i - 1) : s[j] # c
  ELSE 0

RECURSIVE split(_, _)
split(s, c) ==
  IF \A i \in 1..Len(s) : s[i] # c THEN <<s>>
  ELSE SplitAt(s, FirstIndex(s, c), split(Suffix(s, FirstIndex(s, c) + 1), c))

\* re.search(r"::attr\(([^)]+)\)$", query): where the match starts, 0
\* without a match
AttrPseudoAt(q, i) ==
  /\ At(q, i, PSEUDO_ATTR_OPEN)
  /\ i + 7 < Len(q)
  /\ q[Len(q)] = ")"
  /\ \A k \in (i + 7)..(Len(q) - 1) : q[k] # ")"

AttrPseudoStart(q) ==
  IF \E i \in 1..Len(q) : AttrPseudoAt(q, i)
  THEN CHOOSE i \in 1..Len(q) :
         AttrPseudoAt(q, i) /\ \A j \in 1..(i - 1) : ~AttrPseudoAt(q, j)
  ELSE 0

\* lines 217-228 with the match of the ::attr() pattern
PseudoOfPart(q, i) ==
  IF Len(q) >= 6 /\ At(q, Len(q) - 5, PSEUDO_TEXT)
  THEN Pseudo(SubSeq(q, 1, Len(q) - 6), TRUE, FALSE, None)
  ELSE IF i # 0
  THEN Pseudo(SubSeq(q, 1, i - 1), FALSE, TRUE, SubSeq(q, i + 7, Len(q) - 1))
  ELSE Pseudo(q, FALSE, FALSE, None)

\* lines 208-215: one more part p after what the parts before gave
CombinePart(acc, first, p) ==
  Pseudo((IF first THEN <<>> ELSE acc.query \o <<",", " ">>) \o p.query,
         acc.is_text \/ p.is_text,
         acc.is_attr \/ p.is_attr,
         IF Truthy(p.attr_name) THEN p.attr_name ELSE acc.attr_name)

RECURSIVE PseudoOfParts(_, _, _)
\* lines 206-215: the parts from the k-th on, acc being what the parts
\* before gave, the cleaned parts joined with ", "
PseudoOfParts(parts, k, acc) ==
  IF k > Len(parts) THEN acc
  ELSE PseudoOfParts(parts, k + 1,
         CombinePart(acc, k = 1, PseudoOfPart(strip(parts[k]), AttrPseudoStart(strip(parts[k])))))

\* HtmlFiveSelector._parse_css_pseudo
parse_css_pseudo(q) ==
  IF \E i \in 1..Len(q) : q[i] = ","
  THEN PseudoOfParts(split(q, ","), 1, Pseudo(<<>>, FALSE, FALSE, None))
  ELSE PseudoOfPart(q, AttrPseudoStart(q))

\* no call of select()
NotSelected == <<"not selected">>

\* lines 302-340 after a conversion c that returned: the locals, what
\* select() is given (nothing on a text root or with an empty query) and
\* the flags of every selector made
SelectWith(c, p, root_is_str) ==
  [css_query   |-> c.css,
   is_text     |-> c.is_text,
   is_attr     |-> c.is_attr,
   attr_name   |-> c.attr_name,
   selected    |-> IF root_is_str \/ p.query = <<>> THEN NotSelected ELSE p.query,
   final_is_text   |-> c.is_text \/ p.is_text,
   final_is_attr   |-> c.is_attr \/ p.is_attr,
   final_attr_name |-> IF Truthy(c.attr_name) THEN c.attr_name ELSE p.attr_name,
   error       |-> NoError]

\* the state of a selector before any call, and after a call that raised
NoSelection(e) ==
  [css_query |-> None, is_text |-> FALSE, is_attr |-> FALSE, attr_name |-> None,
   selected |-> NotSelected, final_is_text |-> FALSE, final_is_attr |-> FALSE,
   final_attr_name |-> None, error |-> e]

\* HtmlFiveSelector.xpath, o being the outcome of xpath_to_css(query)
selector_xpath(o, root_is_str) ==
  IF o.raised THEN NoSelection(o.error)
  ELSE SelectWith(o.result, parse_css_pseudo(o.result.css), root_is_str)

(***************************************************************************)
(* The queries given to xpath_to_css.  A query is kept in structured form  *)
(* (padding, an optional head, the steps, the extraction suffixes) and     *)
(* rendered to the string passed to the function.                          *)
(***************************************************************************)
MaxSteps == 2

MaxPad == 1

Tags == { <<"a">>, <<"l","i">>, <<"*">> }

Navs == { <<"/">>, <<"/","/">> }

AttrNames == { <<"i","d">>, <<"c","l","a","s","s">>, <<"h","r","e","f">> }

Values ==
  { <<"v">>,
    <<"/","x">>,
    <<"a"," ","b">>,
    <<"a"," "," ","b">>,
    <<"a","\t","b">>,
    <<"a","\n","b">>,
    <<"x"," ","a","n","d"," ","y">> }

Numbers == { <<"1">>, <<"2">>, <<"0","3">> }

RawPredicates ==
  { <<"p","o","s","i","t","i","o","n","(",")","=","1">>,
    <<"l","a","s","t","(",")">>,
    <<"n","o","t","(","@","h","r","e","f",")">>,
    <<"t","e","x","t","(",")","=","'","v","'">>,
    <<"c","o","n","t","a","i","n","s","(","t","e","x","t","(",")",","," ","'","v","'",")">>,
    <<"@","a","=","'","x","'"," ","a","n","d"," ","@","b","=","'","y","'">>,
    <<"@","h","r","e","f","!","=","'","v","'">>,
    <<" ","@","h","r","e","f"," ","=","'","v","'"," ">>,
    <<"p","o","s","i","t","i","o","n","(",")","=","l","a","s","t","(",")">>,
    <<"L","A","S","T","(",")">>,
    <<".","=","'","v","'">>,
    <<"l","a","s","t","(",")","=","p","o","s","i","t","i","o","n","(",")">>,
    <<"@","a","=","'","x","'"," ","o","r"," ","n","o","t","(","@","b",")">> }

NoPred == [form |-> "none", attr |-> <<>>, quote |-> <<>>, val |-> <<>>]

Predicates ==
  [form : {"eq"}, attr : AttrNames, quote : { <<"'">>, <<"\"">> }, val : Values]
    \cup [form : {"has"}, attr : AttrNames, quote : {<<>>}, val : {<<>>}]
    \cup [form : {"contains", "starts"}, attr : AttrNames \ { <<"i","d">> },
          quote : { <<"'">> }, val : Values]
    \cup [form : {"num"}, attr : {<<>>}, quote : {<<>>}, val : Numbers]
    \cup [form : {"raw"}, attr : {<<>>}, quote : {<<>>}, val : RawPredicates]

RenderPred(p) ==
  CASE p.form = "none"     -> <<>>
    [] p.form = "eq"       -> <<"[", "@">> \o p.attr \o <<"=">> \o p.quote \o p.val
                                \o p.quote \o <<"]">>
    [] p.form = "has"      -> <<"[", "@">> \o p.attr \o <<"]">>
    [] p.form = "contains" -> <<"[">> \o CONTAINS_OPEN \o <<"@">> \o p.attr \o <<",", " ">>
                                \o p.quote \o p.val \o p.quote \o <<")", "]">>
    [] p.form = "starts"   -> <<"[">> \o STARTS_WITH_OPEN \o <<"@">> \o p.attr \o <<",", " ">>
                                \o p.quote \o p.val \o p.quote \o <<")", "]">>
    [] OTHER               -> <<"[">> \o p.val \o <<"]">>

Step(nav, tag, pred, second) ==
  [nav |-> nav, tag |-> tag, pred |-> pred, second |-> second]

RenderStep(st) ==
  st.nav \o st.tag \o RenderPred(st.pred)
    \o (IF st.second # None THEN <<"[">> \o st.second \o <<"]">> ELSE <<>>)

RECURSIVE RenderSteps(_)
RenderSteps(steps) ==
  IF steps = <<>> THEN <<>> ELSE RenderStep(Head(steps)) \o RenderSteps(Tail(steps))

PlainSteps == {Step(nav, tag, NoPred, None) : nav \in Navs, tag \in Tags}

PlainPaths == UNION {[1..n -> PlainSteps] : n \in 1..MaxSteps}

PredSteps ==
  {Step(<<"/","/">>, tag, pred, None) : tag \in Tags, pred \in Predicates}
    \cup {Step(<<"/","/">>, <<"l","i">>, pred, <<"3">>) :
            pred \in {p \in Predicates : p.form # "raw"}}

\* a predicate step alone, or after one plain step, or before one
PredPaths ==
  {<<st>> : st \in PredSteps}
    \cup {<<Step(<<"/">>, <<"a">>, NoPred, None), st>> : st \in PredSteps}
    \cup {<<st, Step(<<"/">>, <<"a">>, NoPred, None)>> :
            st \in {s \in PredSteps : s.tag # <<"l","i">>}}

ATTR_SUFFIX == <<"/","@","h","r","e","f">>

Suffixes ==
  { <<>>, <<TEXT_SUFFIX>>, <<ATTR_SUFFIX>>,
    <<ATTR_SUFFIX, TEXT_SUFFIX>>, <<TEXT_SUFFIX, ATTR_SUFFIX>> }

Pads == UNION {[1..n -> {" "}] : n \in 0..MaxPad}

\* padding of any whitespace
WidePads == UNION {[1..n -> Whitespace] : n \in 0..MaxPad}

\* the paths that are padded with any whitespace: nothing, a step that
\* converts, one the detector rejects, one the predicate converter rejects
PaddedPaths ==
  { <<>>,
    <<Step(<<"/","/">>, <<"a">>, NoPred, None)>>,
    <<Step(<<"/","/">>, <<"l","i">>,
           [form |-> "raw", attr |-> <<>>, quote |-> <<>>,
            val |-> <<"l","a","s","t","(",")">>], None)>>,
    <<Step(<<"/","/">>, <<"a">>,
           [form |-> "raw", attr |-> <<>>, quote |-> <<>>,
            val |-> <<"@","h","r","e","f","!","=","'","v","'">>], None)>> }

HasHref == [form |-> "has", attr |-> <<"h","r","e","f">>, quote |-> <<>>, val |-> <<>>]

\* steps no segment shape matches to the end: a second bracket that is not
\* a number, an empty bracket
BracketSteps ==
  { Step(<<"/","/">>, <<"a">>, HasHref, <<"@","t","i","t","l","e">>),
    Step(<<"/">>, <<"l","i">>,
         [form |-> "num", attr |-> <<>>, quote |-> <<>>, val |-> <<"2">>],
         <<"@","h","r","e","f">>),
    Step(<<"/","/">>, <<"a">>, NoPred, <<>>),
    Step(<<"/">>, <<"*">>, NoPred, <<>>) }

\* a slash with no tag after it
SlashSteps == {Step(nav, <<>>, NoPred, None) : nav \in Navs}

GoodStep == Step(<<"/","/">>, <<"l","i">>, HasHref, None)

\* the malformed step alone, after a step that converts, or before one
\* (a slash with no tag only at the end of the path)
MalformedPaths ==
  {<<st>> : st \in BracketSteps \cup SlashSteps}
    \cup {<<GoodStep, st>> : st \in BracketSteps \cup SlashSteps}
    \cup {<<st, GoodStep>> : st \in BracketSteps}

Heads ==
  { <<"i","d","(","\"","v","\"",")">>,
    <<"i","d","(","'","v","'",")">>,
    <<"i","d","(","v",")">>,
    <<"d","i","v">>,
    <<".">>,
    TEXT_FN,
    <<"@","h","r","e","f">>,
    <<"/","/","a","/","f","o","l","l","o","w","i","n","g","-","s","i","b","l","i","n","g",":",":","l","i">>,
    <<"/","/","a","/","p","a","r","e","n","t",":",":","l","i">> }

Query(lead, head, steps, suffix, trail) ==
  [lead |-> lead, head |-> head, steps |-> steps, suffix |-> suffix, trail |-> trail]

Queries ==
  {Query(l, <<>>, p, s, t) : l \in Pads, p \in PlainPaths \cup {<<>>}, s \in Suffixes, t \in Pads}
    \cup {Query(<<>>, <<>>, p, s, <<>>) :
            p \in PredPaths, s \in { <<>>, <<TEXT_SUFFIX>>, <<ATTR_SUFFIX>> }}
    \cup {Query(<<>>, h, p, <<>>, <<>>) :
            h \in Heads, p \in {q \in PlainPaths : Len(q) = 1} \cup {<<>>}}
    \cup {Query(<<>>, <<"i","d","(","\"","v","\"",")">>, p, <<>>, <<>>) : p \in PlainPaths}
    \cup {Query(l, h, p, s, t) :
            l \in WidePads, h \in { <<>>, <<".">> }, p \in PaddedPaths,
            s \in { <<>>, <<TEXT_SUFFIX>> }, t \in WidePads}
    \cup {Query(<<>>, h, p, s, <<>>) :
            h \in { <<>>, <<"i","d","(","'","v","'",")">> }, p \in MalformedPaths,
            s \in { <<>>, <<TEXT_SUFFIX>>, <<ATTR_SUFFIX>> }}

\* values with a comma or with the text of a pseudo-element
PseudoValues == { <<"v">>, <<"a",",","b">>, <<"x",":",":","t","e","x","t">>, <<"a",","," ","b",":",":","t","e","x","t">> }

\* the queries given to HtmlFiveSelector.xpath: plain paths, and one step
\* with an attribute equality of these values
SelectorQueries ==
  {Query(<<>>, <<>>, p, s, <<>>) : p \in PlainPaths, s \in Suffixes}
    \cup {Query(<<>>, <<>>,
                << Step(<<"/","/">>, tag,
                        [form |-> "eq", attr |-> a, quote |-> <<"'">>, val |-> v], None) >>,
                s, <<>>) :
            tag \in Tags, a \in {<<"i","d">>, <<"t","i","t","l","e">>}, v \in PseudoValues,
            s \in { <<>>, <<TEXT_SUFFIX>>, <<ATTR_SUFFIX>> }}

Render(q) == q.lead \o q.head \o RenderSteps(q.steps) \o Join(q.suffix) \o q.trail

(***************************************************************************)
(* HtmlFiveResponseMiddleware of parsel_h5/middleware.py.  A response is   *)
(* an object (id) of a class, with a url and a body; a request has a url   *)
(* and a meta dictionary, kept as a set of <<key, value>> pairs.           *)
(***************************************************************************)
Urls == {"http://example.com", "http://example.com/a"}

Bodies == {"<html><body>Test</body></html>", "<p>x"}

\* the values a request may carry under use_html5: the two booleans, and
\* values that are neither of them
MetaValues == {"False", "True", "0", "1", "None"}

Metas == {{}} \cup {{<<"use_html5", v>>} : v \in MetaValues}

Requests == [url : Urls, meta : Metas]

\* CustomHtmlResponse is a subclass of HtmlResponse with attributes of its
\* own, which the constructor of HtmlFiveResponse does not take
ResponseClasses ==
  {"HtmlResponse", "HtmlFiveResponse", "CustomHtmlResponse", "XmlResponse",
   "JsonResponse", "TextResponse"}

Responses == [id : {1}, cls : ResponseClasses, url : Urls, body : Bodies]

\* HTML5_ENABLED in the crawler's settings
Settings == {"absent", "True", "False"}

NoRequest == [url |-> "", meta |-> {}]

NoResponse == [id |-> 0, cls |-> "", url |-> "", body |-> ""]

\* the classes c is, itself included
Bases(c) ==
  CASE c = "HtmlFiveResponse"   -> {"HtmlFiveResponse", "HtmlResponse", "TextResponse"}
    [] c = "CustomHtmlResponse" -> {"CustomHtmlResponse", "HtmlResponse", "TextResponse"}
    [] c = "HtmlResponse"       -> {"HtmlResponse", "TextResponse"}
    [] c = "XmlResponse"        -> {"XmlResponse", "TextResponse"}
    [] c = "JsonResponse"       -> {"JsonResponse", "TextResponse"}
    [] OTHER                    -> {c}

isinstance(resp, c) == c \in Bases(resp.cls)

\* dict.get(key): the value under the key, None without it
get(meta, key) ==
  IF \E e \in meta : e[1] = key
  THEN (CHOOSE e \in meta : e[1] = key)[2]
  ELSE "None"

\* settings.getbool(name, default)
getbool(setting, default) == IF setting = "absent" THEN default ELSE setting = "True"

\* HtmlFiveResponseMiddleware.from_crawler: self.enabled of the instance
from_crawler(setting) == getbool(setting, TRUE)

\* response.replace(cls=...): a new object of the class with the same url
\* and body, or an exception
response_replace(resp, c) ==
  [ok    |-> resp.cls # "CustomHtmlResponse",
   value |-> [id |-> resp.id + 1, cls |-> c, url |-> resp.url, body |-> resp.body]]

\* try: return response.replace(cls=HtmlFiveResponse) / except: return response
TryReplace(resp, r) == IF r.ok THEN r.value ELSE resp

\* mutation: the global setting is looked at before the request's meta
AfterMeta_setting_first(self_enabled, resp, use_html5) ==
  IF ~self_enabled THEN resp
  ELSE IF use_html5 = "False" THEN resp
  ELSE TryReplace(resp, response_replace(resp, "HtmlFiveResponse"))

\* the per-request override, then the global setting, then the replacement
AfterMeta(self_enabled, resp, use_html5) ==
  IF use_html5 = "False" THEN resp
  ELSE IF use_html5 # "True" /\ ~self_enabled THEN resp
  ELSE TryReplace(resp, response_replace(resp, "HtmlFiveResponse"))

\* mutation: a response that already is an HtmlFiveResponse is not let through
process_response_again(self_enabled, req, resp) ==
  IF ~isinstance(resp, "HtmlResponse") THEN resp
  ELSE AfterMeta(self_enabled, resp, get(req.meta, "use_html5"))

\* HtmlFiveResponseMiddleware.process_response
process_response(self_enabled, req, resp) ==
  IF ~isinstance(resp, "HtmlResponse") THEN resp
  ELSE IF isinstance(resp, "HtmlFiveResponse") THEN resp
  ELSE AfterMeta(self_enabled, resp, get(req.meta, "use_html5"))

(***************************************************************************)
(* HtmlFiveResponseMiddleware of scrapy_h5/middleware.py and               *)
(* HtmlFiveResponse of scrapy_h5/response.py.  Python values that are not  *)
(* backend names are written "None", "False", "True", "0" and "" (the      *)
(* empty string); a header value is a sequence of characters.              *)
(***************************************************************************)
HTML_CONTENT_TYPES == { <<"t","e","x","t","/","h","t","m","l">>, <<"a","p","p","l","i","c","a","t","i","o","n","/","x","h","t","m","l","+","x","m","l">> }

BACKENDS == {"lexbor", "html5ever"}

\* what HTML5_BACKEND may be in the settings
H5Settings == {"absent", "lexbor", "html5ever", "None", "selectolax"}

\* what a request may carry under use_html5
H5MetaValues == {"None", "False", "True", "0", "", "lexbor", "html5ever", "selectolax"}

H5Metas == {{}} \cup {{<<"use_html5", v>>} : v \in H5MetaValues}

H5Requests == [meta : H5Metas]

\* the Content-Type header of a response, None without one
ContentTypes ==
  { None, <<>>, <<"t","e","x","t","/","h","t","m","l">>, <<"a","p","p","l","i","c","a","t","i","o","n","/","x","h","t","m","l","+","x","m","l">>,
    <<"T","e","x","t","/","H","T","M","L",";"," ","c","h","a","r","s","e","t","=","u","t","f","-","8">>,
    <<"a","p","p","l","i","c","a","t","i","o","n","/","j","s","o","n">>, <<"t","e","x","t","/","p","l","a","i","n">> }

H5Classes ==
  {"Response", "TextResponse", "XmlResponse", "JsonResponse", "HtmlResponse", "HtmlFiveResponse"}

\* no selector: None
NoSelector == [of |-> 0, backend |-> "None"]

\* a response object: HtmlFiveResponse's two attributes are the class
\* defaults, None, on every other object
H5Response(id, cls, url, body, content_type) ==
  [id |-> id, cls |-> cls, url |-> url, body |-> body, content_type |-> content_type,
   scrapy_h5_backend |-> "None", cached_h5_selector |-> NoSelector]

H5Responses ==
  {H5Response(1, c, u, b, t) : c \in H5Classes, u \in Urls, b \in Bodies, t \in ContentTypes}

NoH5Request == [meta |-> {}]

NoH5Response == H5Response(0, "", "", "", None)

\* bool(v) of the values above
bool(v) == v \notin {"None", "False", "0", ""}

\* dict.get(key, default)
get_default(meta, key, default) ==
  IF \E e \in meta : e[1] = key
  THEN (CHOOSE e \in meta : e[1] = key)[2]
  ELSE default

\* str.lower()
lower(s) == [k \in 1..Len(s) |-> Fold(s[k])]

\* the Python operator: lit in s
in(lit, s) == \E i \in 1..Len(s) : At(s, i, lit)

\* HtmlFiveResponseMiddleware.__init__: the instance, or a ValueError
h5_init(b) ==
  IF b \notin BACKENDS \cup {"None"}
  THEN [ok |-> FALSE, backend |-> b]
  ELSE [ok |-> TRUE, backend |-> b]

\* HtmlFiveResponseMiddleware.from_crawler
h5_from_crawler(setting) == h5_init(IF setting = "absent" THEN "lexbor" ELSE setting)

\* HtmlFiveResponse.with_backend
with_backend(resp, b) == [resp EXCEPT !.scrapy_h5_backend = b]

\* response.replace(cls=HtmlFiveResponse): a new object with the url, the
\* body and the headers of the old one
h5_replace(resp) ==
  H5Response(resp.id + 1, "HtmlFiveResponse", resp.url, resp.body, resp.content_type)

\* response.headers.get("Content-Type", b"")
content_type_header(resp) == IF resp.content_type = None THEN <<>> ELSE resp.content_type

\* any(ct in content_type for ct in _HTML_CONTENT_TYPES)
IsHtmlType(content_type) == \E ct \in HTML_CONTENT_TYPES : in(ct, content_type)

\* mutation: the header is compared as it is written
ByContentType_cased(resp, use_html5, header) ==
  IF header # <<>> /\ IsHtmlType(header)
  THEN with_backend(h5_replace(resp), use_html5)
  ELSE resp

\* lines 76-82: a response that is no HtmlResponse, by its header
ByContentType(resp, use_html5, header) ==
  IF header # <<>> /\ IsHtmlType(lower(header))
  THEN with_backend(h5_replace(resp), use_html5)
  ELSE resp

\* lines 66-82, use_html5 being the effective backend
h5_after_override(resp, use_html5) ==
  IF ~bool(use_html5) THEN resp
  ELSE IF isinstance(resp, "HtmlResponse")
  THEN with_backend(h5_replace(resp), use_html5)
  ELSE ByContentType(resp, use_html5, content_type_header(resp))

\* scrapy_h5 HtmlFiveResponseMiddleware.process_response
h5_process_response(self_backend, req, resp) ==
  h5_after_override(resp, get_default(req.meta, "use_html5", self_backend))

\* HtmlFiveSelector.__init__(backend, text=...): the selector, or a ValueError
HtmlFiveSelector(b, resp) ==
  IF b \notin BACKENDS
  THEN [ok |-> FALSE, value |-> NoSelector]
  ELSE [ok |-> TRUE, value |-> [of |-> resp.id, backend |-> b]]

UNSUPPORTED_BACKEND == "ValueError: Unsupported html5 backend"

\* the selector property when nothing is cached: the selector is built and
\* kept, or the ValueError of its constructor leaves the object as it was
SelectorBuilt(resp, m) ==
  IF m.ok
  THEN [resp |-> [resp EXCEPT !.cached_h5_selector = m.value], got |-> m.value, error |-> ""]
  ELSE [resp |-> resp, got |-> NoSelector, error |-> UNSUPPORTED_BACKEND]

\* HtmlFiveResponse.selector
selector(resp) ==
  IF resp.cached_h5_selector = NoSelector
  THEN SelectorBuilt(resp, HtmlFiveSelector(resp.scrapy_h5_backend, resp))
  ELSE [resp |-> resp, got |-> resp.cached_h5_selector, error |-> ""]

(***************************************************************************)
(* The state machine: one call of xpath_to_css after another, each         *)
(* followed through the positions of the function.                         *)
(***************************************************************************)
VARIABLES query, arg, pc, xpath, is_text, is_attr, attr_name,
          css_parts, is_first, remaining, result, error,
          enabled, request, response, returned,
          backend, h5_request, h5_response, h5_returned, h5_got, h5_error, h5_last,
          sel_pc, sel_arg, selection

vars == <<query, arg, pc, xpath, is_text, is_attr, attr_name,
          css_parts, is_first, remaining, result, error,
          enabled, request, response, returned,
          backend, h5_request, h5_response, h5_returned, h5_got, h5_error, h5_last,
          sel_pc, sel_arg, selection>>

\* the converter's variables
conv == <<query, arg, pc, xpath, is_text, is_attr, attr_name,
          css_parts, is_first, remaining, result, error>>

\* the middleware's variables: self.enabled, the arguments of the last
\* process_response and what it returned
mw == <<enabled, request, response, returned>>

\* the variables of scrapy_h5: self.backend of the middleware, the arguments
\* of the last process_response, the response object in the spider's hands,
\* what its selector property gave last, the last exception and the last
\* operation
h5 == <<backend, h5_request, h5_response, h5_returned, h5_got, h5_error, h5_last>>

\* the variables of a call of HtmlFiveSelector.xpath: the position, the
\* query, and the locals and effects of the call
sel == <<sel_pc, sel_arg, selection>>

flags == <<is_text, is_attr, attr_name>>

locals == <<css_parts, is_first, remaining>>

Init ==
  /\ query = Query(<<>>, <<>>, <<>>, <<>>, <<>>)
  /\ arg = <<>>
  /\ pc = "idle"
  /\ xpath = <<>>
  /\ is_text = FALSE
  /\ is_attr = FALSE
  /\ attr_name = None
  /\ css_parts = <<>>
  /\ is_first = TRUE
  /\ remaining = <<>>
  /\ result = NoResult
  /\ error = NoError
  /\ enabled = TRUE
  /\ request = NoRequest
  /\ response = NoResponse
  /\ returned = NoResponse
  /\ backend = "lexbor"
  /\ h5_request = NoH5Request
  /\ h5_response = NoH5Response
  /\ h5_returned = NoH5Response
  /\ h5_got = NoSelector
  /\ h5_error = ""
  /\ h5_last = "idle"
  /\ sel_pc = "idle"
  /\ sel_arg = <<>>
  /\ selection = NoSelection(NoError)

\* a caller calls xpath_to_css(Render(q))
Call(q) ==
  /\ pc = "idle"
  /\ query' = q
  /\ arg' = Render(q)
  /\ xpath' = arg'
  /\ pc' = "strip"
  /\ is_text' = FALSE
  /\ is_attr' = FALSE
  /\ attr_name' = None
  /\ css_parts' = <<>>
  /\ is_first' = TRUE
  /\ remaining' = <<>>
  /\ result' = NoResult
  /\ error' = NoError
  /\ UNCHANGED <<mw, h5, sel>>

\* strip, the text suffix, the attribute suffix, strip
Strip ==
  /\ pc = "strip"
  /\ \E s \in {StripSuffixes(xpath)} :
         /\ xpath' = s.xpath
         /\ is_text' = s.is_text
         /\ is_attr' = s.is_attr
         /\ attr_name' = s.attr_name
  /\ pc' = "empty"
  /\ UNCHANGED <<query, arg, locals, result, error>>
  /\ UNCHANGED <<mw, h5, sel>>

\* nothing is left after the suffixes: return "*"
ReturnStar ==
  /\ pc = "empty"
  /\ xpath = <<>>
  /\ result' = Result(<<"*">>, is_text, is_attr, attr_name)
  /\ pc' = "returned"
  /\ UNCHANGED <<query, arg, xpath, flags, locals, error>>
  /\ UNCHANGED <<mw, h5, sel>>

\* the detector on the whole remaining path finds nothing
DetectPass ==
  /\ pc = "empty"
  /\ xpath # <<>>
  /\ check_unsupported(xpath, xpath) = NoError
  /\ pc' = "parse"
  /\ UNCHANGED <<query, arg, xpath, flags, locals, result, error>>
  /\ UNCHANGED <<mw, h5, sel>>

\* the detector on the whole remaining path raises
DetectRaise ==
  /\ pc = "empty"
  /\ xpath # <<>>
  /\ \E e \in {check_unsupported(xpath, xpath)} :
       /\ e # NoError
       /\ error' = e
  /\ pc' = "raised"
  /\ UNCHANGED <<query, arg, xpath, flags, locals, result>>
  /\ UNCHANGED <<mw, h5, sel>>

\* _parse_and_convert up to the loop
ParseBegin ==
  /\ pc = "parse"
  /\ \E s \in {ParseStart(xpath)} :
         /\ css_parts' = s.css_parts
         /\ is_first' = s.is_first
         /\ remaining' = s.remaining
  /\ pc' = "loop"
  /\ UNCHANGED <<query, arg, xpath, flags, result, error>>
  /\ UNCHANGED <<mw, h5, sel>>

\* one iteration that converts a node
LoopContinue ==
  /\ pc = "loop"
  /\ remaining # <<>>
  /\ \E it \in {LoopIteration(remaining, css_parts, is_first, xpath)} :
         /\ it.status = "continue"
         /\ css_parts' = it.locals.css_parts
         /\ is_first' = it.locals.is_first
         /\ remaining' = it.locals.remaining
  /\ UNCHANGED <<query, arg, pc, xpath, flags, result, error>>
  /\ UNCHANGED <<mw, h5, sel>>

\* mutation: a rejected segment ends the loop and the parts converted so
\* far are returned
LoopRaise_partial ==
  /\ pc = "loop"
  /\ remaining # <<>>
  /\ \E it \in {LoopIteration(remaining, css_parts, is_first, xpath)} :
         it.status = "raise"
  /\ result' = Result(JoinParts(css_parts), is_text, is_attr, attr_name)
  /\ pc' = "returned"
  /\ UNCHANGED <<query, arg, xpath, flags, locals, error>>
  /\ UNCHANGED <<mw, h5, sel>>

\* one iteration that raises
LoopRaise ==
  /\ pc = "loop"
  /\ remaining # <<>>
  /\ \E it \in {LoopIteration(remaining, css_parts, is_first, xpath)} :
         /\ it.status = "raise"
         /\ error' = it.error
  /\ pc' = "raised"
  /\ UNCHANGED <<query, arg, xpath, flags, locals, result>>
  /\ UNCHANGED <<mw, h5, sel>>

\* the loop ends, the parts are joined and the tuple is returned
LoopExit ==
  /\ pc = "loop"
  /\ IF remaining = <<>> THEN TRUE
     ELSE LoopIteration(remaining, css_parts, is_first, xpath).status = "break"
  /\ result' = Result(JoinParts(css_parts), is_text, is_attr, attr_name)
  /\ pc' = "returned"
  /\ UNCHANGED <<query, arg, xpath, flags, locals, error>>
  /\ UNCHANGED <<mw, h5, sel>>

\* the call is over (tuple returned or error raised): its frame is gone and
\* the caller may call again
Finish ==
  /\ pc \in {"returned", "raised"}
  /\ query' = Query(<<>>, <<>>, <<>>, <<>>, <<>>)
  /\ arg' = <<>>
  /\ xpath' = <<>>
  /\ pc' = "idle"
  /\ is_text' = FALSE
  /\ is_attr' = FALSE
  /\ attr_name' = None
  /\ css_parts' = <<>>
  /\ is_first' = TRUE
  /\ remaining' = <<>>
  /\ result' = NoResult
  /\ error' = NoError
  /\ UNCHANGED <<mw, h5, sel>>

\* a caller, between two calls, calls with any query
CallAny == pc = "idle" /\ \E q \in Queries : Call(q)

Next ==
  \/ CallAny
  \/ Finish
  \/ Strip
  \/ ReturnStar
  \/ DetectPass
  \/ DetectRaise
  \/ ParseBegin
  \/ LoopContinue
  \/ LoopRaise
  \/ LoopExit

Spec == Init /\ [][Next]_vars

(***************************************************************************)
(* The middleware's state machine: an instance is made from the crawler's  *)
(* settings, and the downloader hands it responses.                        *)
(***************************************************************************)
\* a crawler makes the middleware from its settings
FromCrawler ==
  /\ \E setting \in Settings : enabled' = from_crawler(setting)
  /\ request' = NoRequest
  /\ response' = NoResponse
  /\ returned' = NoResponse
  /\ UNCHANGED <<conv, h5, sel>>

\* the downloader calls process_response(request, response, spider)
ProcessResponse ==
  /\ \E req \in Requests, resp \in Responses :
       /\ request' = req
       /\ response' = resp
       /\ returned' = process_response(enabled, req, resp)
  /\ UNCHANGED <<enabled, conv, h5, sel>>

NextMw ==
  \/ FromCrawler
  \/ ProcessResponse

SpecMw == Init /\ [][NextMw]_vars

(***************************************************************************)
(* The state machine of scrapy_h5: a middleware made from the settings is  *)
(* handed a response, or a spider makes an HtmlFiveResponse itself; the    *)
(* spider then calls with_backend and reads selector on the object it      *)
(* holds, in any order, and lets it go.                                    *)
(***************************************************************************)
\* a crawler makes the middleware from its settings; the constructor may
\* refuse the backend
H5FromCrawler ==
  /\ h5_last = "idle"
  /\ \E setting \in H5Settings :
       \E m \in {h5_from_crawler(setting)} :
         /\ backend' = IF m.ok THEN m.backend ELSE backend
         /\ h5_error' = IF m.ok THEN "" ELSE UNSUPPORTED_BACKEND
  /\ UNCHANGED <<h5_request, h5_response, h5_returned, h5_got, h5_last, conv, mw, sel>>

\* the downloader calls process_response(request, response)
H5ProcessResponse ==
  /\ h5_last = "idle"
  /\ \E req \in H5Requests, resp \in H5Responses :
       /\ h5_request' = req
       /\ h5_response' = resp
       /\ h5_returned' = h5_process_response(backend, req, resp)
  /\ h5_got' = NoSelector
  /\ h5_error' = ""
  /\ h5_last' = "process_response"
  /\ UNCHANGED <<backend, conv, mw, sel>>

\* a spider makes HtmlFiveResponse(url=..., body=...)
H5Construct ==
  /\ h5_last = "idle"
  /\ \E u \in Urls, b \in Bodies :
       h5_returned' = H5Response(1, "HtmlFiveResponse", u, b, None)
  /\ h5_got' = NoSelector
  /\ h5_error' = ""
  /\ h5_last' = "construct"
  /\ UNCHANGED <<backend, h5_request, h5_response, conv, mw, sel>>

\* the spider calls with_backend(b) on the HtmlFiveResponse it holds
WithBackend ==
  /\ h5_last # "idle"
  /\ h5_returned.cls = "HtmlFiveResponse"
  /\ \E b \in BACKENDS : h5_returned' = with_backend(h5_returned, b)
  /\ h5_last' = "with_backend"
  /\ UNCHANGED <<backend, h5_request, h5_response, h5_got, h5_error, conv, mw, sel>>

\* the spider reads the selector property of the HtmlFiveResponse it holds
SelectorAccess ==
  /\ h5_last # "idle"
  /\ h5_returned.cls = "HtmlFiveResponse"
  /\ \E r \in {selector(h5_returned)} :
       /\ h5_returned' = r.resp
       /\ h5_got' = r.got
       /\ h5_error' = r.error
  /\ h5_last' = "selector"
  /\ UNCHANGED <<backend, h5_request, h5_response, conv, mw, sel>>

\* the spider is done with the response
H5Release ==
  /\ h5_last # "idle"
  /\ h5_request' = NoH5Request
  /\ h5_response' = NoH5Response
  /\ h5_returned' = NoH5Response
  /\ h5_got' = NoSelector
  /\ h5_error' = ""
  /\ h5_last' = "idle"
  /\ UNCHANGED <<backend, conv, mw, sel>>

NextH5 ==
  \/ H5FromCrawler
  \/ H5ProcessResponse
  \/ H5Construct
  \/ WithBackend
  \/ SelectorAccess
  \/ H5Release

SpecH5 == Init /\ [][NextH5]_vars

(***************************************************************************)
(* The state machine of HtmlFiveSelector.xpath: one call after another,    *)
(* on a selector whose root is a tree or a text node.                      *)
(***************************************************************************)
\* a caller calls selector.xpath(Render(q))
SelectorXPath ==
  /\ sel_pc = "idle"
  /\ \E q \in SelectorQueries, root_is_str \in BOOLEAN :
       /\ sel_arg' = Render(q)
       /\ selection' = selector_xpath(xpath_to_css(Render(q)), root_is_str)
  /\ sel_pc' = "done"
  /\ UNCHANGED <<conv, mw, h5>>

\* the caller takes the result
SelectorDone ==
  /\ sel_pc = "done"
  /\ sel_pc' = "idle"
  /\ sel_arg' = <<>>
  /\ selection' = NoSelection(NoError)
  /\ UNCHANGED <<conv, mw, h5>>

NextSel ==
  \/ SelectorXPath
  \/ SelectorDone

SpecSel == Init /\ [][NextSel]_vars

(***************************************************************************)
(* Vocabulary of the properties.  The expected selectors are written out   *)
(* from the structure of the query, independently of the translator.       *)
(***************************************************************************)
Terminal == pc \in {"returned", "raised"}

\* lit occurs somewhere in s
Mentions(s, lit) == \E i \in 1..Len(s) : At(s, i, lit)

\* str.lower()
Lowered(s) == [k \in 1..Len(s) |-> Fold(s[k])]

\* the query is a bare path: no padding, no head, no extraction suffix
BarePath(q) ==
  q.lead = <<>> /\ q.trail = <<>> /\ q.head = <<>> /\ q.suffix = <<>> /\ q.steps # <<>>

\* a bare path of one step carrying one predicate of the given forms
OnePredicate(q, forms) ==
  /\ BarePath(q)
  /\ Len(q.steps) = 1
  /\ q.steps[1].pred.form \in forms
  /\ q.steps[1].second = None

\* a bare path of plain steps with tag names
PlainNamed(q) ==
  /\ BarePath(q)
  /\ \A k \in 1..Len(q.steps) :
       /\ q.steps[k].pred = NoPred
       /\ q.steps[k].second = None
       /\ q.steps[k].tag \in Tags \ { <<"*">> }

\* a tag as CSS: the wildcard renders as nothing
TagOrNothing(tag) == IF tag = <<"*">> THEN <<>> ELSE tag

RECURSIVE ExpectedPlainCss(_, _)
\* tag names in order; step k > 1 preceded by " " after // and " > " after /
ExpectedPlainCss(steps, k) ==
  IF k > Len(steps) THEN <<>>
  ELSE (IF k = 1 THEN <<>>
        ELSE IF steps[k].nav = <<"/","/">> THEN <<" ">> ELSE <<" ", ">", " ">>)
         \o steps[k].tag \o ExpectedPlainCss(steps, k + 1)

RECURSIVE ClassTokens(_, _)
\* v split on whitespace from index i on, every token prefixed with "."
ClassTokens(v, i) ==
  LET a == RunIn(v, i, Whitespace)
      b == RunNotIn(v, a, Whitespace)
  IN  IF a > Len(v) THEN <<>>
      ELSE <<".">> \o SubSeq(v, a, b - 1) \o ClassTokens(v, b)

(***************************************************************************)
(* C1: is_text and is_attr are never both true in a returned tuple, and an *)
(* input carrying both suffixes ("/@href/text()") is returned as           *)
(* text-only.                                                              *)
(***************************************************************************)
C1_TextAttrExclusive ==
  pc = "returned" =>
    /\ ~(result.is_text /\ result.is_attr)
    /\ query.suffix = <<ATTR_SUFFIX, TEXT_SUFFIX>> =>
         (result.is_text /\ ~result.is_attr /\ result.attr_name = None)

(***************************************************************************)
(* C2: a path of n >= 1 plain tag steps converts to the tag names in       *)
(* order, the first without combinator, each later one after " " (//) or   *)
(* " > " (/); no extraction flag is set.                                   *)
(***************************************************************************)
C2_PlainPathCss ==
  (Terminal /\ PlainNamed(query)) =>
    /\ pc = "returned"
    /\ result = Result(ExpectedPlainCss(query.steps, 1), FALSE, FALSE, None)

C2_Witness ==
  /\ pc = "returned"
  /\ PlainNamed(query)
  /\ Len(query.steps) >= 2
  /\ \E k \in 2..Len(query.steps) : query.steps[k].nav = <<"/">>
  /\ Mentions(result.css, <<" ", ">", " ">>)

(***************************************************************************)
(* C3: appending "/text()" or "/@name" to a path P that converts to        *)
(* (css, false, false, None) gives (css, true, false, None) and            *)
(* (css, false, true, name); attr_name is set exactly when is_attr is.     *)
(***************************************************************************)
C3_SuffixKeepsSelector ==
  pc = "returned" =>
    /\ (result.attr_name # None) <=> result.is_attr
    /\ (query.suffix = <<>> /\ ~result.is_text /\ ~result.is_attr) =>
         /\ xpath_to_css(arg \o TEXT_SUFFIX)
              = [raised |-> FALSE, error |-> NoError,
                 result |-> Result(result.css, TRUE, FALSE, None)]
         /\ \A n \in AttrNames :
              xpath_to_css(arg \o <<"/", "@">> \o n)
                = [raised |-> FALSE, error |-> NoError,
                   result |-> Result(result.css, FALSE, TRUE, n)]

(***************************************************************************)
(* C4: "//t[@id="v"]" with v free of spaces converts to "t#v" and          *)
(* "//*[@id="v"]" to "#v", never to the generic form [id="v"].             *)
(***************************************************************************)
C4_IdSelector ==
  (/\ Terminal
   /\ OnePredicate(query, {"eq"})
   /\ query.steps[1].pred.attr = <<"i","d">>
   /\ ~Mentions(query.steps[1].pred.val, <<" ">>)) =>
    /\ pc = "returned"
    /\ result.css = TagOrNothing(query.steps[1].tag) \o <<"#">> \o query.steps[1].pred.val
    /\ ~Mentions(result.css, <<"[","i","d","=">>)

C4_Witness ==
  /\ pc = "returned"
  /\ OnePredicate(query, {"eq"})
  /\ query.steps[1].pred.attr = <<"i","d">>
  /\ query.steps[1].tag = <<"*">>
  /\ result.css = <<"#", "v">>

(***************************************************************************)
(* C5: for @class='v' the fragment is v split on whitespace with every     *)
(* token prefixed by "."; a run of whitespace is one separator, so no      *)
(* empty class token ("..") is emitted.                                    *)
(***************************************************************************)
C5_ClassSelector ==
  (/\ Terminal
   /\ OnePredicate(query, {"eq"})
   /\ query.steps[1].pred.attr = <<"c","l","a","s","s">>) =>
    /\ pc = "returned"
    /\ result.css = TagOrNothing(query.steps[1].tag)
                      \o ClassTokens(query.steps[1].pred.val, 1)
    /\ ~Mentions(result.css, <<".", ".">>)

(***************************************************************************)
(* C6: for an attribute other than id and class and every value of         *)
(* accepted characters, "//t[@n="v"]" succeeds with css t[n="v"], the      *)
(* value unchanged, also when it is several words.                         *)
(***************************************************************************)
C6_AttrEqSelector ==
  (/\ Terminal
   /\ OnePredicate(query, {"eq"})
   /\ query.steps[1].pred.attr \notin { <<"i","d">>, <<"c","l","a","s","s">> }) =>
    /\ pc = "returned"
    /\ result.css = TagOrNothing(query.steps[1].tag) \o <<"[">> \o query.steps[1].pred.attr
                      \o <<"=", "\"">> \o query.steps[1].pred.val \o <<"\"", "]">>

(***************************************************************************)
(* C7: contains(@n, 'v') converts to [n*="v"] and starts-with(@n, 'v') to  *)
(* [n^="v"], the value in double quotes.                                   *)
(***************************************************************************)
C7_StringFunctionsQuoted ==
  (Terminal /\ OnePredicate(query, {"contains", "starts"})) =>
    /\ pc = "returned"
    /\ result.css = TagOrNothing(query.steps[1].tag) \o <<"[">> \o query.steps[1].pred.attr
                      \o (IF query.steps[1].pred.form = "contains" THEN <<"*">> ELSE <<"^">>)
                      \o <<"=", "\"">> \o query.steps[1].pred.val \o <<"\"", "]">>

Constructs ==
  << [text |-> <<"p","o","s","i","t","i","o","n","(",")">>,
      name |-> <<"p","o","s","i","t","i","o","n","(",")">>],
     [text |-> <<"l","a","s","t","(",")">>,
      name |-> <<"l","a","s","t","(",")">>],
     [text |-> <<"n","o","t","(">>,
      name |-> <<"n","o","t","(">>],
     [text |-> <<"f","o","l","l","o","w","i","n","g","-","s","i","b","l","i","n","g",":",":">>,
      name |-> <<"f","o","l","l","o","w","i","n","g","-","s","i","b","l","i","n","g">>],
     [text |-> <<"p","r","e","c","e","d","i","n","g","-","s","i","b","l","i","n","g",":",":">>,
      name |-> <<"p","r","e","c","e","d","i","n","g","-","s","i","b","l","i","n","g">>],
     [text |-> <<"a","n","c","e","s","t","o","r",":",":">>,
      name |-> <<"a","n","c","e","s","t","o","r">>],
     [text |-> <<"p","a","r","e","n","t",":",":">>,
      name |-> <<"p","a","r","e","n","t">>],
     [text |-> <<" ","a","n","d"," ">>, name |-> <<"a","n","d">>],
     [text |-> <<" ","o","r"," ">>,     name |-> <<"o","r">>] >>

\* the query without padding and extraction suffixes
Body(q) == q.head \o RenderSteps(q.steps)

\* the listed constructs that s contains, in any letter case
Present(s) == {k \in 1..Len(Constructs) : Mentions(Lowered(s), Constructs[k].text)}

\* the first of a non-empty set of list positions
First(ks) == CHOOSE k \in ks : \A j \in ks : k <= j

\* the two forms of a text-equality predicate
TextEqualities ==
  { <<"t","e","x","t","(",")","=","'","v","'">>, <<".","=","'","v","'">> }

\* some step of the query carries a text-equality predicate
HasTextEquality(q) ==
  \E k \in 1..Len(q.steps) :
    q.steps[k].pred.form = "raw" /\ q.steps[k].pred.val \in TextEqualities

C12_DetectorBeforeParser ==
  Present(Body(query)) # {} =>
    /\ pc \notin {"parse", "loop", "returned"}
    /\ pc = "raised" =>
         /\ \E k \in Present(Body(query)) : Mentions(error.reason, Constructs[k].name)
         /\ ~Mentions(error.reason, <<"C","a","n","n","o","t"," ","p","a","r","s","e">>)
         /\ ~Mentions(error.reason, <<"U","n","s","u","p","p","o","r","t","e","d"," ",
                                      "p","r","e","d","i","c","a","t","e">>)
         /\ css_parts = <<>>
         /\ remaining = <<>>

C12_Witness ==
  /\ pc = "raised"
  /\ arg = <<"/","/","a","/","f","o","l","l","o","w","i","n","g","-","s","i","b","l","i","n","g",":",":","l","i">>
  /\ Mentions(error.reason, Constructs[4].name)
  /\ css_parts = <<>>

(***************************************************************************)
(* C13: whitespace around the input does not change the outcome: the call  *)
(* on a padded input ends as the call on the input without the padding     *)
(* does, with the same tuple, or with an error of the same xpath, reason   *)
(* and suggestion.                                                         *)
(***************************************************************************)
C13_PaddingIgnored ==
  (Terminal /\ (query.lead # <<>> \/ query.trail # <<>>)) =>
    Outcome(pc = "raised", error, result)
      = xpath_to_css(Body(query) \o Join(query.suffix))

C13_Witness ==
  /\ pc = "raised"
  /\ query.lead = <<"\n">>
  /\ query.trail = <<"\t">>
  /\ query.head = <<".">>
  /\ query.steps # <<>>
  /\ error.xpath = Body(query)
  /\ Mentions(error.reason, Body(query))

(***************************************************************************)
(* Queries that are one extraction step on the current node.               *)
(***************************************************************************)
\* nothing at all, "/text()" or "/@href", whatever the padding
SlashExtraction(q) ==
  /\ q.head = <<>>
  /\ q.steps = <<>>
  /\ q.suffix \in { <<>>, <<TEXT_SUFFIX>>, <<ATTR_SUFFIX>> }

\* "text()" or "@href", without the leading "/"
BareExtraction(q) ==
  /\ q.head \in { TEXT_FN, <<"@","h","r","e","f">> }
  /\ q.steps = <<>>
  /\ q.suffix = <<>>

\* css "*" with the flag of the extraction step
StarResult(q) ==
  IF q.suffix = <<TEXT_SUFFIX>> \/ q.head = TEXT_FN
  THEN Result(<<"*">>, TRUE, FALSE, None)
  ELSE IF q.suffix = <<ATTR_SUFFIX>> \/ q.head = <<"@","h","r","e","f">>
  THEN Result(<<"*">>, FALSE, TRUE, <<"h","r","e","f">>)
  ELSE Result(<<"*">>, FALSE, FALSE, None)

(***************************************************************************)
(* C14 as stated: a query that is only "text()" or only "@name", with or   *)
(* without a leading "/", and an empty or whitespace-only query, returns   *)
(* css "*" with the matching extraction flag.                              *)
(***************************************************************************)
C14_ExtractionOnlyStar ==
  (Terminal /\ (SlashExtraction(query) \/ BareExtraction(query))) =>
    /\ pc = "returned"
    /\ result = StarResult(query)

(***************************************************************************)
(* C14 amended: a query that is only "/text()" or only "/@name" (the       *)
(* leading "/" is required), padded or not, and an empty or                *)
(* whitespace-only query, returns css "*" with the matching extraction     *)
(* flag in the step that follows the stripping of the suffixes, the        *)
(* detector and the parser not being run; "text()" and "@name" without     *)
(* the "/" are relative paths and fail with "Cannot parse: " and the       *)
(* query.                                                                  *)
(***************************************************************************)
C14_SlashExtractionStar ==
  [][ /\ (pc = "empty" /\ SlashExtraction(query)) =>
           (pc' = "returned" /\ result' = StarResult(query))
      /\ (pc' \in {"returned", "raised"} /\ BareExtraction(query')) =>
           (pc' = "raised" /\ error'.reason = CANNOT_PARSE \o query'.head)
    ]_vars

C14_Witness ==
  /\ pc = "returned"
  /\ query.head = <<>>
  /\ query.steps = <<>>
  /\ query.suffix = <<TEXT_SUFFIX>>
  /\ query.lead # <<>>
  /\ result = Result(<<"*">>, TRUE, FALSE, None)
  /\ css_parts = <<>>

(***************************************************************************)
(* A rank of the positions of a call: the work that is left at most.       *)
(***************************************************************************)
Rank ==
  CASE pc = "strip" -> Len(arg) + 5
    [] pc = "empty" -> Len(arg) + 4
    [] pc = "parse" -> Len(arg) + 3
    [] pc = "loop"  -> Len(remaining) + 2
    [] pc \in {"returned", "raised"} -> 1
    [] OTHER -> 0

(***************************************************************************)
(* C16: every iteration of the scanning loop that does not end the call    *)
(* leaves a remainder that is a strictly shorter suffix of the one it      *)
(* started with, and a call cannot run forever: each of its steps lowers   *)
(* a rank that is a natural number, down to the tuple or the error.        *)
(***************************************************************************)
C16_ForwardProgress ==
  [][ /\ (pc = "loop" /\ pc' = "loop") =>
           /\ Len(remaining') < Len(remaining)
           /\ remaining' = Suffix(remaining, Len(remaining) - Len(remaining') + 1)
      /\ (pc \in {"strip", "empty", "parse", "loop"}) =>
           /\ Rank' < Rank
           /\ Rank' >= 1
    ]_vars

C16_Witness ==
  /\ pc = "loop"
  /\ Len(css_parts) = 1
  /\ remaining # <<>>
  /\ Len(remaining) < Len(xpath)
  /\ xpath = SubSeq(xpath, 1, Len(xpath) - Len(remaining)) \o remaining

(***************************************************************************)
(* Queries with a step that cannot be converted: a predicate of none of    *)
(* the recognised forms.                                                   *)
(***************************************************************************)
ConvertibleRaw == { <<" ","@","h","r","e","f"," ","=","'","v","'"," ">> }

Rejected(q) ==
  \E k \in 1..Len(q.steps) :
    q.steps[k].pred.form = "raw" /\ q.steps[k].pred.val \notin ConvertibleRaw

(***************************************************************************)
(* C17: a call ends in one of two ways: with a complete tuple and no       *)
(* error, or with an XPathConversionError whose reason and suggestion are  *)
(* not empty and no tuple at all; a path with a rejected step ends the     *)
(* second way, whatever was converted before that step; and nothing is     *)
(* returned or raised before the call ends.                                *)
(***************************************************************************)
C17_TupleOrError ==
  /\ pc = "returned" =>
       /\ error = NoError
       /\ result.css # None
       /\ result.is_text \in BOOLEAN
       /\ result.is_attr \in BOOLEAN
       /\ result.is_attr => Truthy(result.attr_name)
  /\ pc = "raised" =>
       /\ result = NoResult
       /\ error.xpath = xpath
       /\ Truthy(error.reason)
       /\ Truthy(error.suggestion)
  /\ pc \in {"strip", "empty", "parse", "loop"} => (result = NoResult /\ error = NoError)
  /\ (Terminal /\ Rejected(query)) => pc = "raised"

C17_Witness ==
  /\ pc = "raised"
  /\ Rejected(query)
  /\ css_parts # <<>>
  /\ result = NoResult
  /\ Truthy(error.suggestion)

(***************************************************************************)
(* Queries led by the id() function.                                       *)
(***************************************************************************)
IdHeads ==
  { <<"i","d","(","\"","v","\"",")">>,
    <<"i","d","(","'","v","'",")">>,
    <<"i","d","(","v",")">> }

\* id(...) followed by plain steps, nothing else
IdPath(q) ==
  /\ q.head \in IdHeads
  /\ q.lead = <<>> /\ q.trail = <<>> /\ q.suffix = <<>>
  /\ \A k \in 1..Len(q.steps) :
       /\ q.steps[k].tag \in Tags
       /\ q.steps[k].pred = NoPred
       /\ q.steps[k].second = None

RECURSIVE AfterId(_, _, _)
\* every step from the k-th on, after " " for // and " > " for /, the
\* wildcard being written as star
AfterId(steps, k, star) ==
  IF k > Len(steps) THEN <<>>
  ELSE (IF steps[k].nav = <<"/","/">> THEN <<" ">> ELSE <<" ", ">", " ">>)
         \o (IF steps[k].tag = <<"*">> THEN star ELSE steps[k].tag)
         \o AfterId(steps, k + 1, star)

(***************************************************************************)
(* C18: a leading id(v), v bare or in single or double quotes, converts to *)
(* "#v", and every step after it is attached with the combinator of its    *)
(* own marker, " " for // and " > " for /: the id segment counts as the    *)
(* first segment.  A wildcard step may be written "*" or left empty.       *)
(***************************************************************************)
C18_IdFunctionLeads ==
  (Terminal /\ IdPath(query)) =>
    /\ pc = "returned"
    /\ result.css \in { <<"#","v">> \o AfterId(query.steps, 1, <<"*">>),
                        <<"#","v">> \o AfterId(query.steps, 1, <<>>) }
    /\ ~result.is_text /\ ~result.is_attr /\ result.attr_name = None

\* the query is a path that starts with neither "/" nor id(
RelativeQuery(q) ==
  /\ q.head \in { <<"d","i","v">>, <<".">> }
  /\ q.lead = <<>> /\ q.trail = <<>> /\ q.suffix = <<>>
  /\ \A k \in 1..Len(q.steps) :
       /\ q.steps[k].tag \in Tags
       /\ q.steps[k].pred = NoPred
       /\ q.steps[k].second = None

\* the query has a step of MalformedPaths
MalformedQuery(q) ==
  /\ q.head \in { <<>>, <<"i","d","(","'","v","'",")">> }
  /\ q.steps \in MalformedPaths

RECURSIVE Unparsed(_, _)
\* what is left of the steps from the k-th on where the first malformed
\* step stops the scan: its second bracket, or its slash, and all after it
Unparsed(steps, k) ==
  IF k > Len(steps) THEN <<>>
  ELSE IF steps[k].tag = <<>> THEN RenderSteps(SubSeq(steps, k, Len(steps)))
  ELSE IF steps[k].second # None
  THEN <<"[">> \o steps[k].second \o <<"]">>
         \o RenderSteps(SubSeq(steps, k + 1, Len(steps)))
  ELSE Unparsed(steps, k + 1)

(***************************************************************************)
(* C19: when the scan meets text that is not whitespace and matches no     *)
(* segment shape, the conversion fails with the reason "Cannot parse: "    *)
(* followed by exactly the unconsumed suffix, not the whole input: the     *)
(* whole path for a relative path, the second bracket and what follows it  *)
(* for a non-numeric or empty bracket, the slash for a trailing slash.     *)
(***************************************************************************)
C19_RemainderNamed ==
  /\ (Terminal /\ RelativeQuery(query)) =>
        /\ pc = "raised"
        /\ error.reason = CANNOT_PARSE \o Body(query)
  /\ (Terminal /\ MalformedQuery(query)) =>
        /\ pc = "raised"
        /\ error.reason = CANNOT_PARSE \o Unparsed(query.steps, 1)

\* '//li[@href]//a[@href][@title]' has failed naming '[@title]'
C19_Witness ==
  /\ pc = "raised"
  /\ query.head = <<>>
  /\ query.steps = <<GoodStep, Step(<<"/","/">>, <<"a">>, HasHref, <<"@","t","i","t","l","e">>)>>
  /\ error.reason = CANNOT_PARSE \o <<"[","@","t","i","t","l","e","]">>

\* the last call was given a plain HtmlResponse
PlainHtml == response.cls = "HtmlResponse"

\* what was returned is a new HtmlFiveResponse with the url and the body of
\* the response given
Replaced ==
  /\ returned.cls = "HtmlFiveResponse"
  /\ returned.id # response.id
  /\ returned.url = response.url
  /\ returned.body = response.body

(***************************************************************************)
(* C20: on a plain HtmlResponse, process_response follows the request's    *)
(* meta before the global setting: use_html5 = False returns the response  *)
(* it was given, use_html5 = True returns an HtmlFiveResponse with the     *)
(* same url and body, whatever the setting; without the key the response   *)
(* is replaced if and only if the middleware is enabled.                   *)
(***************************************************************************)
C20_MetaBeforeSetting ==
  PlainHtml =>
    /\ (<<"use_html5", "False">> \in request.meta) => returned = response
    /\ (<<"use_html5", "True">> \in request.meta) => Replaced
    /\ (request.meta = {}) => (IF enabled THEN Replaced ELSE returned = response)

\* a disabled middleware has replaced the response of a request with
\* use_html5 = True
C20_Witness ==
  /\ PlainHtml
  /\ ~enabled
  /\ <<"use_html5", "True">> \in request.meta
  /\ Replaced

\* the last call was given a response that is no HtmlResponse, or one that
\* already is an HtmlFiveResponse
NotForReplacing ==
  response.cls \in {"XmlResponse", "JsonResponse", "TextResponse", "HtmlFiveResponse"}

(***************************************************************************)
(* C21: process_response of parsel_h5 returns the very object it was       *)
(* given, unchanged, for a response that is not an HtmlResponse and for    *)
(* one that already is an HtmlFiveResponse, whatever the setting and       *)
(* whatever the request's use_html5.                                       *)
(***************************************************************************)
C21_OthersPassThrough ==
  NotForReplacing => returned = response

\* an enabled middleware was given an HtmlFiveResponse with use_html5 = True
\* and has returned it
C21_Witness ==
  /\ response.cls = "HtmlFiveResponse"
  /\ enabled
  /\ <<"use_html5", "True">> \in request.meta
  /\ returned = response

\* the effective backend of the last call: the request's use_html5 if the
\* key is there, the middleware's backend otherwise
Effective ==
  IF h5_request.meta = {} THEN backend
  ELSE (CHOOSE e \in h5_request.meta : TRUE)[2]

\* the effective backend is truthy
InEffect == Effective \notin {"None", "False", "0", ""}

\* the headers of the model that name an HTML content type, in any case
HtmlHeaders ==
  { <<"t","e","x","t","/","h","t","m","l">>, <<"a","p","p","l","i","c","a","t","i","o","n","/","x","h","t","m","l","+","x","m","l">>,
    <<"T","e","x","t","/","H","T","M","L",";"," ","c","h","a","r","s","e","t","=","u","t","f","-","8">> }

\* the last call was given an HtmlResponse, or a plain Response with an
\* HTML content type
ForReplacing ==
  \/ h5_response.cls \in {"HtmlResponse", "HtmlFiveResponse"}
  \/ h5_response.cls = "Response" /\ h5_response.content_type \in HtmlHeaders

\* what was returned is a new HtmlFiveResponse with the url and the body of
\* the response given
H5Replaced ==
  /\ h5_returned.cls = "HtmlFiveResponse"
  /\ h5_returned.id # h5_response.id
  /\ h5_returned.url = h5_response.url
  /\ h5_returned.body = h5_response.body

C23_NonHtmlPassThrough ==
  (h5_last = "process_response" /\ backend \in BACKENDS /\ h5_request.meta = {}) =>
    /\ (h5_response.cls \in {"XmlResponse", "JsonResponse"}) => h5_returned = h5_response
    /\ (h5_response.cls = "TextResponse") =>
          h5_returned.cls \notin {"HtmlResponse", "HtmlFiveResponse"}

\* the object in the spider's hands was made by process_response
MadeByMiddleware ==
  /\ h5_response # NoH5Response
  /\ h5_returned.cls = "HtmlFiveResponse"
  /\ h5_returned.id # h5_response.id

(***************************************************************************)
(* C29: every HtmlFiveResponse that process_response of scrapy_h5 makes    *)
(* carries the backend 'lexbor' or 'html5ever', so that building its       *)
(* selector never fails with 'Unsupported html5 backend', for every        *)
(* backend of the middleware and every use_html5 of the request.           *)
(***************************************************************************)
C29_BackendIsSupported ==
  MadeByMiddleware =>
    /\ h5_returned.scrapy_h5_backend \in {"lexbor", "html5ever"}
    /\ (h5_last = "selector") => h5_error = ""

(***************************************************************************)
(* C28: after any sequence of with_backend calls and selector accesses on  *)
(* an HtmlFiveResponse of scrapy_h5, the selector that the selector        *)
(* property returns was built with the backend of the most recent          *)
(* with_backend call; it is made on the first access, not before, and      *)
(* later accesses return that same object.                                 *)
(***************************************************************************)
C28_SelectorOfLatestBackend ==
  /\ (h5_last \in {"process_response", "construct"}) =>
        h5_returned.cached_h5_selector = NoSelector
  /\ (h5_last = "selector" /\ h5_error = "") =>
        /\ h5_got = h5_returned.cached_h5_selector
        /\ h5_got.backend = h5_returned.scrapy_h5_backend

\* the reasons of the detector, in the order of its list
DetectorReasons ==
  << <<"p","o","s","i","t","i","o","n","(",")"," ","f","u","n","c","t","i","o","n"," ","i","s"," ","n","o","t"," ","s","u","p","p","o","r","t","e","d">>,
     <<"l","a","s","t","(",")"," ","f","u","n","c","t","i","o","n"," ","i","s"," ","n","o","t"," ","s","u","p","p","o","r","t","e","d">>,
     <<"n","o","t","(",")"," ","f","u","n","c","t","i","o","n"," ","i","s"," ","n","o","t"," ","s","u","p","p","o","r","t","e","d">>,
     <<"f","o","l","l","o","w","i","n","g","-","s","i","b","l","i","n","g"," ","a","x","i","s"," ","i","s"," ","n","o","t"," ","s","u","p","p","o","r","t","e","d">>,
     <<"p","r","e","c","e","d","i","n","g","-","s","i","b","l","i","n","g"," ","a","x","i","s"," ","i","s"," ","n","o","t"," ","s","u","p","p","o","r","t","e","d">>,
     <<"a","n","c","e","s","t","o","r"," ","a","x","i","s"," ","i","s"," ","n","o","t"," ","s","u","p","p","o","r","t","e","d">>,
     <<"p","a","r","e","n","t"," ","a","x","i","s"," ","i","s"," ","n","o","t"," ","s","u","p","p","o","r","t","e","d">>,
     <<"a","n","d"," ","o","p","e","r","a","t","o","r"," ","i","n"," ","p","r","e","d","i","c","a","t","e","s"," ","i","s"," ","n","o","t"," ","s","u","p","p","o","r","t","e","d">>,
     <<"o","r"," ","o","p","e","r","a","t","o","r"," ","i","n"," ","p","r","e","d","i","c","a","t","e","s"," ","i","s"," ","n","o","t"," ","s","u","p","p","o","r","t","e","d">> >>

(***************************************************************************)
(* C24: when an input contains several of the listed constructs, exactly   *)
(* one error is raised and its reason is that of the construct that comes  *)
(* first in the list (position(), last(), not(, following-sibling::,       *)
(* preceding-sibling::, ancestor::, parent::, and, or), wherever the       *)
(* constructs stand in the text.                                           *)
(***************************************************************************)
C24_ListOrderWins ==
  (Terminal /\ Cardinality(Present(Body(query))) >= 2) =>
    /\ pc = "raised"
    /\ result = NoResult
    /\ error.reason = DetectorReasons[First(Present(Body(query)))]

\* a query with '[last()=position()]' has failed naming position()
C24_Witness ==
  /\ pc = "raised"
  /\ Mentions(arg, <<"l","a","s","t","(",")","=","p","o","s","i","t","i","o","n","(",")">>)
  /\ error.reason = DetectorReasons[1]

\* the query is one step tag[pred][n], nothing else
IndexedStep(q) ==
  /\ BarePath(q)
  /\ Len(q.steps) = 1
  /\ q.steps[1].pred # NoPred
  /\ q.steps[1].second \in Seq(Digits) \ { <<>> }

\* ":nth-of-type(n)"
NthOfType(n) ==
  <<":","n","t","h","-","o","f","-","t","y","p","e","(">> \o n \o <<")">>

\* what tag[pred][n] is to give, base being the outcome of tag[pred]: with
\* a numeric predicate the tag and the explicit index; otherwise the css of
\* tag[pred] followed by the index, or the failure of tag[pred]
IndexedAsExpected(st, base) ==
  IF st.pred.form = "num"
  THEN pc = "returned" /\ result.css = st.tag \o NthOfType(st.second)
  ELSE IF base.raised
  THEN pc = "raised" /\ error.reason = base.error.reason
  ELSE pc = "returned" /\ result.css = base.result.css \o NthOfType(st.second)

C26_CssWellFormed ==
  (pc = "returned" /\ Body(query) # <<>>) =>
    /\ result.css # <<>>
    /\ Head(result.css) # ">"
    /\ result.css[Len(result.css)] # ">"

(***************************************************************************)
(* C27: HtmlFiveSelector.xpath of parsel_h5 hands the output of the        *)
(* translator on unchanged: when xpath_to_css returns (css, is_text,       *)
(* is_attr, attr_name), the string given to select() is css and every      *)
(* selector made carries these flags, also for a css with a comma or       *)
(* with "::text" inside an attribute value or an id.                       *)
(***************************************************************************)
C27_OutputHandedOn ==
  (sel_pc = "done" /\ selection.error = NoError) =>
    /\ (selection.selected # NotSelected) => selection.selected = selection.css_query
    /\ selection.final_is_text = selection.is_text
    /\ selection.final_is_attr = selection.is_attr
    /\ selection.final_attr_name = selection.attr_name

\* the query without its padding and without the extraction suffixes that
\* end it: of '/text()/@href' only '/@href' ends the query
Kept(q) ==
  IF q.suffix = <<TEXT_SUFFIX, ATTR_SUFFIX>> THEN Body(q) \o TEXT_SUFFIX ELSE Body(q)

(***************************************************************************)
(* C30: the xpath recorded in every XPathConversionError that xpath_to_css *)
(* raises is the input after trimming and after removal of the trailing    *)
(* '/text()' and/or '/@name' suffix, and the message of the exception is   *)
(* "Cannot convert XPath '<xpath>': <reason>", followed by                 *)
(* ". Suggestion: <suggestion>" when there is a suggestion.                *)
(***************************************************************************)
C30_ErrorNamesStrippedPath ==
  (pc = "raised") =>
    /\ error.xpath = Kept(query)
    /\ Message(error) = <<"C","a","n","n","o","t"," ","c","o","n","v","e","r","t"," ","X","P","a","t","h"," ","'">> \o error.xpath \o <<"'",":"," ">> \o error.reason
                     \o (IF error.suggestion \in {None, <<>>} THEN <<>>
                         ELSE <<"."," ","S","u","g","g","e","s","t","i","o","n",":"," ">> \o error.suggestion)

====
